---------------------------- MODULE Spec2Model ----------------------------
(***************************************************************************)
(* Slot availability and booking conflict engine of gharieni-booking.      *)
(*                                                                         *)
(* The Document Store (Firestore) holds one Event document and the         *)
(* Booking documents.  Each visitor session is one mounted                 *)
(* BookEventContent component (src/app/book/page.tsx) with its React       *)
(* state; the organizer acts on the store through the functions of         *)
(* src/lib/firestore.ts.  Every await of handleBooking and loadEvent is a  *)
(* separate step, so store reads and writes of different sessions          *)
(* interleave as they do between browsers.                                 *)
(***************************************************************************)
EXTENDS Integers, Sequences, FiniteSets, TLC

(***************************************************************************)
(* Bounds of the model.                                                    *)
(***************************************************************************)
\* number of handleBooking executions that reach the store, all sessions together
MaxSubmits == 3
\* number of organizer operations (toggle, cancel) in one behaviour
MaxAdminOps == 1
\* number of store requests that are rejected (store unavailable) in one behaviour
MaxFaults == 1
\* number of iterations of the loop of generateTimeSlots that are followed
MaxSlotSteps == 20
\* number of booking-list requests of the dashboard that are in flight at once
MaxRequests == 4

Sessions == {"v1", "v2"}
EventId == "E1"
DeviceIds == <<"D1", "D2">>
EventDates == <<"2026-02-03">>
AvailableSlots == <<"09:00", "09:30">>

Null == "null"
\* getEventById of a missing document, and the event state before the first load
NoEvent == [id |-> Null]

(***************************************************************************)
(* Strings are sequences of one-character strings, so that trim(),         *)
(* toLowerCase() and the two regular expressions of handleBooking are      *)
(* computed and not assumed.                                               *)
(***************************************************************************)
Range(f) == {f[i] : i \in DOMAIN f}

IsSpace(c) == c = " "

IsDigit(c) == c \in {"0", "1", "2", "3", "4", "5", "6", "7", "8", "9"}

\* String.prototype.toLowerCase on one character
LowerChar(c) ==
  CASE c = "A" -> "a"
    [] c = "B" -> "b"
    [] c = "C" -> "c"
    [] OTHER -> c

ToLowerCase(str) == [i \in 1..Len(str) |-> LowerChar(str[i])]

RECURSIVE TrimStart(_)
TrimStart(str) ==
  IF str = <<>> THEN <<>>
  ELSE IF IsSpace(Head(str)) THEN TrimStart(Tail(str)) ELSE str

RECURSIVE TrimEnd(_)
TrimEnd(str) ==
  IF str = <<>> THEN <<>>
  ELSE IF IsSpace(str[Len(str)]) THEN TrimEnd(SubSeq(str, 1, Len(str) - 1)) ELSE str

\* String.prototype.trim
Trim(str) == TrimEnd(TrimStart(str))

\* /^[^\s@]+@[^\s@]+\.[^\s@]+$/.test(str)
EmailRegexTest(str) ==
  \E i \in 1..Len(str) : \E j \in 1..Len(str) :
    /\ str[i] = "@"
    /\ str[j] = "."
    /\ 1 < i
    /\ i + 1 < j
    /\ j < Len(str)
    /\ \A k \in 1..Len(str) : k # i => (str[k] # "@" /\ ~IsSpace(str[k]))

\* /^[\d\s\-\+\(\)]+$/.test(str)
PhoneRegexTest(str) ==
  /\ str # <<>>
  /\ \A k \in 1..Len(str) : IsDigit(str[k]) \/ IsSpace(str[k]) \/ str[k] \in {"-", "+", "(", ")"}

\* str.replace(/\D/g, '')
PhoneDigits(str) == SelectSeq(str, IsDigit)

MinPhoneDigits == 10

(***************************************************************************)
(* The contact data visitors type into the booking form.  Alice and        *)
(* AliceLower are the same e-mail address in different case, Alice and Bob *)
(* the same phone number with and without a leading blank; Carol has       *)
(* neither in common with Alice; InvalidForm fails the e-mail expression.  *)
(***************************************************************************)
PhoneP == <<"5", "5", "5", "0", "1", "0", "0", "1", "1", "1">>
PhoneQ == <<"5", "5", "5", "0", "1", "0", "0", "2", "2", "2">>

EmptyForm == [name |-> <<>>, email |-> <<>>, phone |-> <<>>, note |-> <<>>, confirmedArrival |-> FALSE]

Alice == [name |-> <<" ", "A", "l">>, email |-> <<"A", "@", "x", ".", "y">>,
          phone |-> <<" ">> \o PhoneP, note |-> <<"h", "i", " ">>, confirmedArrival |-> TRUE]
AliceLower == [name |-> <<"A", "l">>, email |-> <<"a", "@", "x", ".", "y">>,
               phone |-> PhoneQ, note |-> <<>>, confirmedArrival |-> TRUE]
Bob == [name |-> <<"B", "o">>, email |-> <<"b", "@", "x", ".", "y">>,
        phone |-> PhoneP, note |-> <<" ">>, confirmedArrival |-> TRUE]
Carol == [name |-> <<"C", "a">>, email |-> <<"c", "@", "x", ".", "y">>,
          phone |-> PhoneQ, note |-> <<>>, confirmedArrival |-> TRUE]
InvalidForm == [name |-> <<"N", "o">>, email |-> <<"n", "@", "x">>,
                phone |-> PhoneQ, note |-> <<>>, confirmedArrival |-> TRUE]

\* what the visitor of a session types: Alice is at v1; at v2 it is Alice
\* again, from another browser, or Bob, or Carol
FormsOf(s) == IF s = "v1" THEN {Alice} ELSE {AliceLower, Bob, Carol}

VARIABLES
  eventDoc,                 \* store: the Event document, or NoEvent once deleted
  bookings,                 \* store: the Booking documents
  nextId,                   \* store: the id addDoc gives the next Booking
  sendBookingRequests,      \* requests received by POST /api/send-booking
  adminOps,                 \* organizer operations performed so far
  submits,                  \* handleBooking executions that passed the form checks
  faults,                   \* store requests rejected so far
  event,                    \* session: useState event
  devices,                  \* session: useState devices
  loading,                  \* session: useState loading
  bookedSlots,              \* session: useState bookedSlots
  selectedDeviceIds,        \* session: useState selectedDeviceIds
  selectedDeviceBookings,   \* session: useState selectedDeviceBookings
  bookingForm,              \* session: useState bookingForm
  submitting,               \* session: useState submitting
  pc,                       \* session: the await its async function is at
  run,                      \* session: the values handleBooking closed over, its loop index
  outcome,                  \* session: the last toast of handleBooking
  written,                  \* session: Bookings written by its current or last handleBooking
  checkLog,                 \* per written Booking id, the document and the store clock at its validation reads
  slotGen,                  \* event creation page: the call of generateTimeSlots in progress
  dashboard                 \* admin dashboard: selectedEvent, bookings, loadBookings calls in flight

storeVars == <<eventDoc, bookings, nextId, sendBookingRequests>>
boundVars == <<adminOps, submits>>
viewVars == <<event, devices, loading, bookedSlots>>
selVars == <<selectedDeviceIds, selectedDeviceBookings, bookingForm>>
runVars == <<submitting, pc, run, outcome, written, checkLog>>
vars == <<eventDoc, bookings, nextId, sendBookingRequests, adminOps, submits, faults,
          event, devices, loading, bookedSlots,
          selectedDeviceIds, selectedDeviceBookings, bookingForm,
          submitting, pc, run, outcome, written, checkLog, slotGen, dashboard>>

\* no call of generateTimeSlots is in progress
NoCall == [pc |-> "none"]

NoRun == [ids |-> <<>>, sel |-> <<>>, form |-> EmptyForm, i |-> 0,
          n |-> 0, start |-> 0, clear |-> FALSE, enabled |-> TRUE,
          slotAt |-> <<>>, emailAt |-> <<>>, phoneAt |-> <<>>, retryOf |-> <<>>]

\* the state after the pages of the sessions in open have been mounted on an
\* event with the given dates and on a store that holds the Bookings stored,
\* with the ids 1, 2, ...: their useEffect has called loadEvent; failed
\* store requests count as rejected already
InitOn(dates, open, failed, stored) ==
  /\ eventDoc = [id |-> EventId, eventDates |-> dates, availableSlots |-> AvailableSlots,
                 deviceIds |-> DeviceIds, enabled |-> TRUE]
  /\ bookings = stored
  /\ nextId = Cardinality(stored) + 1
  /\ sendBookingRequests = <<>>
  /\ adminOps = 0
  /\ submits = 0
  /\ faults = failed
  /\ event = [s \in Sessions |-> NoEvent]
  /\ devices = [s \in Sessions |-> {}]
  /\ loading = [s \in Sessions |-> TRUE]
  /\ bookedSlots = [s \in Sessions |-> <<>>]
  /\ selectedDeviceIds = [s \in Sessions |-> <<>>]
  /\ selectedDeviceBookings = [s \in Sessions |-> <<>>]
  /\ bookingForm = [s \in Sessions |-> EmptyForm]
  /\ submitting = [s \in Sessions |-> FALSE]
  /\ pc = [s \in Sessions |-> IF s \in open THEN "mountEvent" ELSE "closed"]
  /\ run = [s \in Sessions |-> NoRun]
  /\ outcome = [s \in Sessions |-> "none"]
  /\ written = [s \in Sessions |-> <<>>]
  /\ checkLog = <<>>
  /\ dashboard = [selectedEvent |-> Null, bookings |-> {}, requests |-> <<>>]

\* the same on a store without Bookings
InitWith(dates, open, failed) == InitOn(dates, open, failed, {})

\* two visitors on a store that answers every request
Init == InitWith(EventDates, Sessions, MaxFaults) /\ slotGen = NoCall

\* a store request: it is answered (ok) or rejected, the latter at most MaxFaults times
StoreAnswers(ok) ==
  /\ ~ok => faults < MaxFaults
  /\ faults' = IF ok THEN faults ELSE faults + 1

(***************************************************************************)
(* Document Store queries (src/lib/firestore.ts).  A query is the set of   *)
(* matching documents; the functions that return docs[0] return some       *)
(* element of it, and null when it is empty.                               *)
(***************************************************************************)
GetBookingsByEventId(eventId) == {b \in bookings : b.eventId = eventId}

\* getBookingBySlot with date and slotTime compared against each other's field
GetBookingBySlotSwapped(eventId, date, slotTime, deviceId) ==
  {b \in bookings : /\ b.eventId = eventId
                    /\ b.date = slotTime
                    /\ b.slotTime = date
                    /\ b.deviceId = deviceId}

GetBookingBySlot(eventId, date, slotTime, deviceId) ==
  {b \in bookings : /\ b.eventId = eventId
                    /\ b.date = date
                    /\ b.slotTime = slotTime
                    /\ b.deviceId = deviceId}

\* the e-mail query without toLowerCase()
UserEmailQueryCaseSensitive(eventId, date, slotTime, email) ==
  {b \in bookings : /\ b.eventId = eventId
                    /\ b.date = date
                    /\ b.slotTime = slotTime
                    /\ b.email = Trim(email)}

\* the e-mail query of getBookingByUserAtSlot
UserEmailQuery(eventId, date, slotTime, email) ==
  {b \in bookings : /\ b.eventId = eventId
                    /\ b.date = date
                    /\ b.slotTime = slotTime
                    /\ b.email = Trim(ToLowerCase(email))}

\* the phone query filtering on the e-mail field
UserPhoneQueryOnEmail(eventId, date, slotTime, phone) ==
  {b \in bookings : /\ b.eventId = eventId
                    /\ b.date = date
                    /\ b.slotTime = slotTime
                    /\ b.email = Trim(phone)}

\* the phone query of getBookingByUserAtSlot
UserPhoneQuery(eventId, date, slotTime, phone) ==
  {b \in bookings : /\ b.eventId = eventId
                    /\ b.date = date
                    /\ b.slotTime = slotTime
                    /\ b.phone = Trim(phone)}

(***************************************************************************)
(* Availability projector of the booking page.                             *)
(***************************************************************************)
\* the bookedMap loadEvent builds from the bookings of the event
BookedMap(eventData, allBookings) ==
  [date \in Range(eventData.eventDates) |->
    [deviceId \in Range(eventData.deviceIds) |->
      {b.slotTime : b \in {x \in allBookings : x.date = date /\ x.deviceId = deviceId}}]]

BookedForDevice(s, date, deviceId) ==
  IF date \in DOMAIN bookedSlots[s] /\ deviceId \in DOMAIN bookedSlots[s][date]
  THEN bookedSlots[s][date][deviceId]
  ELSE {}

\* getAvailableSlotsForDate looking the device up under the date key, which
\* the index does not have
GetAvailableSlotsForDateWrongKey(s, date, deviceId) ==
  LET free(slot) == slot \notin BookedForDevice(s, deviceId, date)
  IN SelectSeq(event[s].availableSlots, free)

GetAvailableSlotsForDate(s, date, deviceId) ==
  LET free(slot) == slot \notin BookedForDevice(s, date, deviceId)
  IN SelectSeq(event[s].availableSlots, free)

\* getAvailableDatesForDevice without the filter: every event date
GetAvailableDatesForDeviceUnfiltered(s, deviceId) == event[s].eventDates

GetAvailableDatesForDevice(s, deviceId) ==
  LET hasSlots(date) == Len(GetAvailableSlotsForDate(s, date, deviceId)) > 0
  IN SelectSeq(event[s].eventDates, hasSlots)

GetAvailableDatesForDevices(s, deviceIds) ==
  IF Len(deviceIds) = 0 THEN <<>>
  ELSE LET allHaveSlots(date) ==
             \A k \in 1..Len(deviceIds) : Len(GetAvailableSlotsForDate(s, date, deviceIds[k])) > 0
       IN SelectSeq(event[s].eventDates, allHaveSlots)

\* blockedSlots without the filter on the date: the slots of the other
\* selected devices on any date
BlockedSlotsAnyDate(s, deviceId) ==
  {selectedDeviceBookings[s][id].slot :
     id \in {x \in Range(selectedDeviceIds[s]) :
               /\ x # deviceId
               /\ x \in DOMAIN selectedDeviceBookings[s]}}

\* the slots the slot buttons of a device show as disabled
BlockedSlots(s, deviceId) ==
  {selectedDeviceBookings[s][id].slot :
     id \in {x \in Range(selectedDeviceIds[s]) :
               /\ x # deviceId
               /\ x \in DOMAIN selectedDeviceBookings[s]
               /\ selectedDeviceBookings[s][x].date = selectedDeviceBookings[s][deviceId].date}}

\* allDevicesHaveSelection with some() in the place of every()
AllDevicesHaveSelectionSome(ids, sel) ==
  /\ Len(ids) > 0
  /\ \E k \in 1..Len(ids) :
       /\ ids[k] \in DOMAIN sel
       /\ sel[ids[k]].date # Null
       /\ sel[ids[k]].slot # Null

AllDevicesHaveSelection(ids, sel) ==
  /\ Len(ids) > 0
  /\ \A k \in 1..Len(ids) :
       /\ ids[k] \in DOMAIN sel
       /\ sel[ids[k]].date # Null
       /\ sel[ids[k]].slot # Null

\* the page renders the booking widgets (none of the early returns of the render)
PageShown(s) ==
  /\ pc[s] # "closed"
  /\ ~loading[s]
  /\ event[s] # NoEvent
  /\ event[s].enabled # FALSE
  /\ Len(event[s].deviceIds) > 0

\* the visitor acts on the widgets of the page; while a submission is in flight
\* the visitor waits for its toast
Interactive(s) == PageShown(s) /\ pc[s] = "idle"

(***************************************************************************)
(* loadEvent: getEventById and getDevicesByIds, then getBookingsByEventId. *)
(* res is what the store answers: "throwEvent" and "throwDevices" are a    *)
(* rejected getEventById or getDevicesByIds, "ok" an answer.               *)
(***************************************************************************)
LoadEventHead(s, res) ==
  /\ StoreAnswers(res = "ok")
  /\ CASE res = "throwEvent" ->
            /\ UNCHANGED <<event, devices>>
       [] res = "throwDevices" ->
            /\ eventDoc # NoEvent /\ Len(eventDoc.deviceIds) > 0
            /\ event' = [event EXCEPT ![s] = eventDoc]
            /\ UNCHANGED devices
       [] res = "ok" ->
            IF eventDoc = NoEvent
            THEN UNCHANGED <<event, devices>>
            ELSE /\ event' = [event EXCEPT ![s] = eventDoc]
                 /\ devices' = IF Len(eventDoc.deviceIds) > 0
                               THEN [devices EXCEPT ![s] = Range(eventDoc.deviceIds)]
                               ELSE devices

\* loadEvent goes on to getBookingsByEventId
LoadEventContinues(res) == res = "ok" /\ eventDoc # NoEvent

LoadEventTail(s, ok) ==
  /\ StoreAnswers(ok)
  /\ IF ok
     THEN bookedSlots' = [bookedSlots EXCEPT ![s] = BookedMap(event[s], GetBookingsByEventId(EventId))]
     ELSE UNCHANGED bookedSlots

\* useEffect(() => loadEvent(), [eventId]): first await
MountLoadEvent(s) ==
  /\ pc[s] = "mountEvent"
  /\ \E res \in {"throwEvent", "throwDevices", "ok"} :
       /\ LoadEventHead(s, res)
       /\ IF LoadEventContinues(res)
          THEN /\ pc' = [pc EXCEPT ![s] = "mountBookings"]
               /\ UNCHANGED loading
          ELSE /\ pc' = [pc EXCEPT ![s] = "idle"]
               /\ loading' = [loading EXCEPT ![s] = FALSE]
  /\ UNCHANGED <<dashboard, slotGen, storeVars, boundVars, bookedSlots, selVars, submitting, run, outcome, written, checkLog>>

\* loadEvent at mount: getBookingsByEventId, setBookedSlots, finally setLoading(false)
MountLoadBookings(s) ==
  /\ pc[s] = "mountBookings"
  /\ \E ok \in BOOLEAN : LoadEventTail(s, ok)
  /\ pc' = [pc EXCEPT ![s] = "idle"]
  /\ loading' = [loading EXCEPT ![s] = FALSE]
  /\ UNCHANGED <<dashboard, slotGen, storeVars, boundVars, event, devices, selVars, submitting, run, outcome, written, checkLog>>

(***************************************************************************)
(* Selection handlers of the booking page.  The guards are the conditions  *)
(* under which the page renders the button and leaves it enabled.  run,    *)
(* outcome and written record the last handleBooking of the session until  *)
(* the visitor touches the selection or the form again.                    *)
(***************************************************************************)
ForgetRun(s) ==
  /\ run' = [run EXCEPT ![s] = NoRun]
  /\ outcome' = [outcome EXCEPT ![s] = "none"]
  /\ written' = [written EXCEPT ![s] = <<>>]
  /\ UNCHANGED <<submitting, pc, checkLog>>

HandleDeviceSelect(s, deviceId) ==
  /\ Interactive(s)
  /\ deviceId \in devices[s]
  /\ Len(GetAvailableDatesForDevice(s, deviceId)) > 0
  /\ IF deviceId \in Range(selectedDeviceIds[s])
     THEN /\ selectedDeviceIds' =
               [selectedDeviceIds EXCEPT ![s] = SelectSeq(@, LAMBDA id : id # deviceId)]
          /\ selectedDeviceBookings' =
               [selectedDeviceBookings EXCEPT
                  ![s] = [id \in DOMAIN @ \ {deviceId} |-> @[id]]]
     ELSE /\ selectedDeviceIds' = [selectedDeviceIds EXCEPT ![s] = Append(@, deviceId)]
          /\ selectedDeviceBookings' =
               [selectedDeviceBookings EXCEPT
                  ![s] = (deviceId :> [date |-> Null, slot |-> Null]) @@ @]
  /\ UNCHANGED <<dashboard, slotGen, storeVars, boundVars, faults, viewVars, bookingForm>>
  /\ ForgetRun(s)

\* handleDeviceDateSelect keeping the slot the device had
HandleDeviceDateSelectKeepsSlot(s, deviceId, date) ==
  /\ Interactive(s)
  /\ deviceId \in Range(selectedDeviceIds[s])
  /\ date \in Range(GetAvailableDatesForDevice(s, deviceId))
  /\ selectedDeviceBookings' =
       [selectedDeviceBookings EXCEPT
          ![s] = (deviceId :> [date |-> date,
                               slot |-> IF deviceId \in DOMAIN @ THEN @[deviceId].slot ELSE Null]) @@ @]
  /\ UNCHANGED <<dashboard, slotGen, storeVars, boundVars, faults, viewVars, selectedDeviceIds, bookingForm>>
  /\ ForgetRun(s)

HandleDeviceDateSelect(s, deviceId, date) ==
  /\ Interactive(s)
  /\ deviceId \in Range(selectedDeviceIds[s])
  /\ date \in Range(GetAvailableDatesForDevice(s, deviceId))
  /\ selectedDeviceBookings' =
       [selectedDeviceBookings EXCEPT ![s] = (deviceId :> [date |-> date, slot |-> Null]) @@ @]
  /\ UNCHANGED <<dashboard, slotGen, storeVars, boundVars, faults, viewVars, selectedDeviceIds, bookingForm>>
  /\ ForgetRun(s)

\* the update function handleDeviceSlotSelect passes to setSelectedDeviceBookings
SlotSelectUpdate(prev, ids, deviceId, slot) ==
  LET own == IF deviceId \in DOMAIN prev
             THEN [prev[deviceId] EXCEPT !.slot = slot]
             ELSE [slot |-> slot]
      updated == (deviceId :> own) @@ prev
      hasDate == "date" \in DOMAIN own /\ own.date # Null
      clash(otherId) == /\ hasDate
                        /\ otherId \in Range(ids)
                        /\ otherId # deviceId
                        /\ updated[otherId].date = own.date
                        /\ updated[otherId].slot = slot
  IN [id \in DOMAIN updated |->
        IF clash(id) THEN [updated[id] EXCEPT !.slot = Null] ELSE updated[id]]

\* handleDeviceSlotSelect placing a hold in the store: a Booking for the
\* chosen cell
HandleDeviceSlotSelectPlacingHold(s, deviceId, slot) ==
  /\ Interactive(s)
  /\ deviceId \in Range(selectedDeviceIds[s])
  /\ deviceId \in DOMAIN selectedDeviceBookings[s]
  /\ selectedDeviceBookings[s][deviceId].date # Null
  /\ slot \in Range(GetAvailableSlotsForDate(s, selectedDeviceBookings[s][deviceId].date, deviceId))
  /\ slot \notin BlockedSlots(s, deviceId)
  /\ selectedDeviceBookings' =
       [selectedDeviceBookings EXCEPT
          ![s] = SlotSelectUpdate(@, selectedDeviceIds[s], deviceId, slot)]
  /\ bookings' = bookings \cup
       {[id |-> nextId, eventId |-> EventId, deviceId |-> deviceId, slotTime |-> slot,
         date |-> selectedDeviceBookings[s][deviceId].date,
         name |-> <<>>, email |-> <<>>, phone |-> <<>>]}
  /\ nextId' = nextId + 1
  /\ UNCHANGED <<dashboard, slotGen, eventDoc, sendBookingRequests, boundVars, faults, viewVars,
                 selectedDeviceIds, bookingForm>>
  /\ ForgetRun(s)

\* handleDeviceSlotSelect without the exclusion between devices: every free
\* slot can be clicked and the slot of the other devices is left as it is
HandleDeviceSlotSelectNoExclusion(s, deviceId, slot) ==
  /\ Interactive(s)
  /\ deviceId \in Range(selectedDeviceIds[s])
  /\ deviceId \in DOMAIN selectedDeviceBookings[s]
  /\ selectedDeviceBookings[s][deviceId].date # Null
  /\ slot \in Range(GetAvailableSlotsForDate(s, selectedDeviceBookings[s][deviceId].date, deviceId))
  /\ selectedDeviceBookings' =
       [selectedDeviceBookings EXCEPT ![s][deviceId].slot = slot]
  /\ UNCHANGED <<dashboard, slotGen, storeVars, boundVars, faults, viewVars, selectedDeviceIds, bookingForm>>
  /\ ForgetRun(s)

HandleDeviceSlotSelect(s, deviceId, slot) ==
  /\ Interactive(s)
  /\ deviceId \in Range(selectedDeviceIds[s])
  /\ deviceId \in DOMAIN selectedDeviceBookings[s]
  /\ selectedDeviceBookings[s][deviceId].date # Null
  /\ slot \in Range(GetAvailableSlotsForDate(s, selectedDeviceBookings[s][deviceId].date, deviceId))
  /\ slot \notin BlockedSlots(s, deviceId)
  /\ selectedDeviceBookings' =
       [selectedDeviceBookings EXCEPT
          ![s] = SlotSelectUpdate(@, selectedDeviceIds[s], deviceId, slot)]
  /\ UNCHANGED <<dashboard, slotGen, storeVars, boundVars, faults, viewVars, selectedDeviceIds, bookingForm>>
  /\ ForgetRun(s)

\* onChange of the form inputs; the form is rendered once every device has a date and a slot
SetBookingForm(s, form) ==
  /\ Interactive(s)
  /\ AllDevicesHaveSelection(selectedDeviceIds[s], selectedDeviceBookings[s])
  /\ bookingForm[s] # form
  /\ bookingForm' = [bookingForm EXCEPT ![s] = form]
  /\ UNCHANGED <<dashboard, slotGen, storeVars, boundVars, faults, viewVars, selectedDeviceIds, selectedDeviceBookings>>
  /\ ForgetRun(s)

(***************************************************************************)
(* handleBooking.  The function closes over the state of the render in     *)
(* which the form was submitted: run[s] holds selectedDeviceIds,           *)
(* selectedDeviceBookings and bookingForm of that render and the index of  *)
(* the loop it is in.  The other fields of run[s] are history: the number  *)
(* of the submission, the store clock (nextId) when it started and at each *)
(* validation read, whether the store was free of conflicts and the event  *)
(* enabled when it started, and the Bookings written by the execution      *)
(* before it when that one failed on the same selection and form.          *)
(***************************************************************************)
\* the toast of the checks handleBooking makes before setSubmitting(true)
FormError(ids, sel, form) ==
  IF ~AllDevicesHaveSelection(ids, sel) THEN "Incomplete"
  ELSE IF form.name = <<>> \/ form.email = <<>> \/ form.phone = <<>> THEN "MissingContact"
  ELSE IF ~form.confirmedArrival THEN "NotConfirmed"
  ELSE IF ~EmailRegexTest(form.email) THEN "InvalidEmail"
  ELSE IF ~PhoneRegexTest(form.phone) \/ Len(PhoneDigits(form.phone)) < MinPhoneDigits
       THEN "InvalidPhone"
  ELSE "none"

\* the record with the e-mail trimmed but not lower-cased
BookingDataRawEmail(id, deviceId, sel, form) ==
  LET base == [id |-> id,
               eventId |-> EventId,
               deviceId |-> deviceId,
               slotTime |-> sel.slot,
               date |-> sel.date,
               name |-> Trim(form.name),
               email |-> Trim(form.email),
               phone |-> Trim(form.phone)]
  IN IF form.note # <<>> /\ Trim(form.note) # <<>>
     THEN base @@ [note |-> Trim(form.note)]
     ELSE base

\* the record handleBooking passes to createBooking, with the id addDoc gives it
BookingData(id, deviceId, sel, form) ==
  LET base == [id |-> id,
               eventId |-> EventId,
               deviceId |-> deviceId,
               slotTime |-> sel.slot,
               date |-> sel.date,
               name |-> Trim(form.name),
               email |-> Trim(ToLowerCase(form.email)),
               phone |-> Trim(form.phone)]
  IN IF form.note # <<>> /\ Trim(form.note) # <<>>
     THEN base @@ [note |-> Trim(form.note)]
     ELSE base

\* a return out of the try block that leaves the submitting flag as it is
LeaveStillSubmitting(s, toast) ==
  /\ outcome' = [outcome EXCEPT ![s] = toast]
  /\ pc' = [pc EXCEPT ![s] = "idle"]
  /\ UNCHANGED <<run, submitting>>

\* return or throw out of the try block: toast, setSubmitting(false)
Leave(s, toast) ==
  /\ outcome' = [outcome EXCEPT ![s] = toast]
  /\ submitting' = [submitting EXCEPT ![s] = FALSE]
  /\ pc' = [pc EXCEPT ![s] = "idle"]
  /\ UNCHANGED run

\* no Booking of the store stands in the way of the reservation (ids, sel) of form
ClearOfConflicts(ids, sel, form) ==
  \A k \in 1..Len(ids) :
    /\ GetBookingBySlot(EventId, sel[ids[k]].date, sel[ids[k]].slot, ids[k]) = {}
    /\ UserEmailQuery(EventId, sel[ids[k]].date, sel[ids[k]].slot, Trim(form.email)) = {}
    /\ UserPhoneQuery(EventId, sel[ids[k]].date, sel[ids[k]].slot, Trim(form.phone)) = {}

\* handleBooking up to the first await, on the values of the render it closes over
HandleBookingWith(s, ids, sel, form) ==
  LET err == FormError(ids, sel, form)
  IN IF err # "none"
     THEN /\ outcome[s] # err
          /\ outcome' = [outcome EXCEPT ![s] = err]
          /\ UNCHANGED <<submitting, pc, run, written, submits>>
     ELSE /\ submits < MaxSubmits
          /\ submits' = submits + 1
          /\ submitting' = [submitting EXCEPT ![s] = TRUE]
          /\ run' = [run EXCEPT ![s] = [NoRun EXCEPT !.ids = ids,
                                                     !.sel = sel,
                                                     !.form = form,
                                                     !.i = 1,
                                                     !.n = submits + 1,
                                                     !.start = nextId,
                                                     !.clear = ClearOfConflicts(ids, sel, form),
                                                     !.enabled = ~(eventDoc # NoEvent /\ eventDoc.enabled = FALSE),
                                                     !.retryOf = IF /\ outcome[s] = "Failed"
                                                                    /\ run[s].ids = ids
                                                                    /\ run[s].sel = sel
                                                                    /\ run[s].form = form
                                                                 THEN written[s]
                                                                 ELSE <<>>]]
          /\ outcome' = [outcome EXCEPT ![s] = "none"]
          /\ written' = [written EXCEPT ![s] = <<>>]
          /\ pc' = [pc EXCEPT ![s] = "slotCheck"]

\* onSubmit of the form: the form is rendered and its button enabled
HandleBookingSubmit(s) ==
  /\ Interactive(s)
  /\ AllDevicesHaveSelection(selectedDeviceIds[s], selectedDeviceBookings[s])
  /\ ~submitting[s]
  /\ bookingForm[s].confirmedArrival
  /\ HandleBookingWith(s, selectedDeviceIds[s], selectedDeviceBookings[s], bookingForm[s])
  /\ UNCHANGED <<dashboard, slotGen, storeVars, adminOps, faults, viewVars, selVars, checkLog>>

\* handleBooking called on the state of the page as it is, whether or not the
\* page renders the form and enables its button
HandleBookingCall(s) ==
  /\ Interactive(s)
  /\ HandleBookingWith(s, selectedDeviceIds[s], selectedDeviceBookings[s], bookingForm[s])
  /\ UNCHANGED <<dashboard, slotGen, storeVars, adminOps, faults, viewVars, selVars, checkLog>>

(***************************************************************************)
(* A visitor composes a reservation and submits it.  The selections are    *)
(* those the three selection handlers reach from the availability index of *)
(* the session: every selected device has a free date and a free slot of   *)
(* that date, and no two selected devices share a date and a slot (the     *)
(* slot buttons block it).  The clicks are local to the session, so they   *)
(* are taken together with the submission that follows them.               *)
(***************************************************************************)
DeviceOrders(devs) ==
  {ids \in UNION {[1..n -> devs] : n \in 1..Cardinality(devs)} :
     \A i, j \in DOMAIN ids : i # j => ids[i] # ids[j]}

SelectionComposable(s, ids, sel) ==
  /\ DOMAIN sel = Range(ids)
  /\ \A d \in Range(ids) :
       /\ d \in devices[s]
       /\ sel[d].date \in Range(GetAvailableDatesForDevice(s, d))
       /\ sel[d].slot \in Range(GetAvailableSlotsForDate(s, sel[d].date, d))
  /\ \A d1, d2 \in Range(ids) : d1 # d2 => ~(sel[d1].date = sel[d2].date /\ sel[d1].slot = sel[d2].slot)

\* the entries of prev the composition leaves in place
KeptEntries(prev, sel) == [d \in DOMAIN prev \ DOMAIN sel |-> prev[d]]

Reserve(s, ids, sel, form) ==
  /\ Interactive(s)
  /\ run[s] = NoRun
  /\ selectedDeviceIds[s] = <<>>
  /\ ~submitting[s]
  /\ SelectionComposable(s, ids, sel)
  /\ form.confirmedArrival
  /\ selectedDeviceIds' = [selectedDeviceIds EXCEPT ![s] = ids]
  /\ selectedDeviceBookings' = [selectedDeviceBookings EXCEPT ![s] = sel @@ KeptEntries(@, sel)]
  /\ bookingForm' = [bookingForm EXCEPT ![s] = form]
  /\ HandleBookingWith(s, ids, sel @@ KeptEntries(selectedDeviceBookings[s], sel), form)
  /\ UNCHANGED <<dashboard, slotGen, storeVars, adminOps, faults, viewVars, checkLog>>

\* the first loop checking the first selected device in every iteration
SlotCheckFirstOnly(s) ==
  /\ pc[s] = "slotCheck"
  /\ LET r == run[s]
         deviceId == r.ids[1]
     IN IF deviceId \notin DOMAIN r.sel \/ r.sel[deviceId].date = Null \/ r.sel[deviceId].slot = Null
        THEN Leave(s, "MissingSelection") /\ UNCHANGED faults
        ELSE \E ok \in BOOLEAN :
               /\ StoreAnswers(ok)
               /\ IF ~ok
                  THEN Leave(s, "Failed")
                  ELSE IF GetBookingBySlot(EventId, r.sel[deviceId].date, r.sel[deviceId].slot, deviceId) # {}
                  THEN Leave(s, "SlotAlreadyBooked")
                  ELSE /\ run' = [run EXCEPT ![s].slotAt = (deviceId :> nextId) @@ @,
                                             ![s].i = IF r.i < Len(r.ids) THEN r.i + 1 ELSE 1]
                       /\ pc' = [pc EXCEPT ![s] = IF r.i < Len(r.ids) THEN "slotCheck" ELSE "userEmail"]
                       /\ UNCHANGED <<outcome, submitting>>
  /\ UNCHANGED <<dashboard, slotGen, storeVars, boundVars, viewVars, selVars, written, checkLog>>

\* one iteration of the first loop: await getBookingBySlot
SlotCheck(s) ==
  /\ pc[s] = "slotCheck"
  /\ LET r == run[s]
         deviceId == r.ids[r.i]
     IN IF deviceId \notin DOMAIN r.sel \/ r.sel[deviceId].date = Null \/ r.sel[deviceId].slot = Null
        THEN Leave(s, "MissingSelection") /\ UNCHANGED faults
        ELSE \E ok \in BOOLEAN :
               /\ StoreAnswers(ok)
               /\ IF ~ok
                  THEN Leave(s, "Failed")
                  ELSE IF GetBookingBySlot(EventId, r.sel[deviceId].date, r.sel[deviceId].slot, deviceId) # {}
                  THEN Leave(s, "SlotAlreadyBooked")
                  ELSE /\ run' = [run EXCEPT ![s].slotAt = (deviceId :> nextId) @@ @,
                                             ![s].i = IF r.i < Len(r.ids) THEN r.i + 1 ELSE 1]
                       /\ pc' = [pc EXCEPT ![s] = IF r.i < Len(r.ids) THEN "slotCheck" ELSE "userEmail"]
                       /\ UNCHANGED <<outcome, submitting>>
  /\ UNCHANGED <<dashboard, slotGen, storeVars, boundVars, viewVars, selVars, written, checkLog>>

\* the second loop showing the toast of an e-mail conflict without returning
UserEmailCheckNoReturn(s) ==
  /\ pc[s] = "userEmail"
  /\ LET r == run[s]
         deviceId == r.ids[r.i]
         email == Trim(r.form.email)
     IN IF email = <<>>
        THEN /\ pc' = [pc EXCEPT ![s] = "userPhone"]
             /\ UNCHANGED <<run, outcome, submitting, faults>>
        ELSE \E ok \in BOOLEAN :
               /\ StoreAnswers(ok)
               /\ IF ~ok
                  THEN Leave(s, "Failed")
                  ELSE IF UserEmailQuery(EventId, r.sel[deviceId].date, r.sel[deviceId].slot, email) # {}
                  THEN /\ outcome' = [outcome EXCEPT ![s] = "DuplicatePerson"]
                       /\ pc' = [pc EXCEPT ![s] = "userPhone"]
                       /\ UNCHANGED <<run, submitting>>
                  ELSE /\ run' = [run EXCEPT ![s].emailAt = (deviceId :> nextId) @@ @]
                       /\ pc' = [pc EXCEPT ![s] = "userPhone"]
                       /\ UNCHANGED <<outcome, submitting>>
  /\ UNCHANGED <<dashboard, slotGen, storeVars, boundVars, viewVars, selVars, written, checkLog>>

\* one iteration of the second loop: the e-mail query of getBookingByUserAtSlot
UserEmailCheck(s) ==
  /\ pc[s] = "userEmail"
  /\ LET r == run[s]
         deviceId == r.ids[r.i]
         email == Trim(r.form.email)
     IN IF email = <<>>
        THEN /\ pc' = [pc EXCEPT ![s] = "userPhone"]
             /\ UNCHANGED <<run, outcome, submitting, faults>>
        ELSE \E ok \in BOOLEAN :
               /\ StoreAnswers(ok)
               /\ IF ~ok
                  THEN Leave(s, "Failed")
                  ELSE IF UserEmailQuery(EventId, r.sel[deviceId].date, r.sel[deviceId].slot, email) # {}
                  THEN Leave(s, "DuplicatePerson")
                  ELSE /\ run' = [run EXCEPT ![s].emailAt = (deviceId :> nextId) @@ @]
                       /\ pc' = [pc EXCEPT ![s] = "userPhone"]
                       /\ UNCHANGED <<outcome, submitting>>
  /\ UNCHANGED <<dashboard, slotGen, storeVars, boundVars, viewVars, selVars, written, checkLog>>


\* the phone query with getBookingByUserAtSlot catching the error of the
\* store and returning null in the place of throwing it again
UserPhoneCheckErrorAsNone(s) ==
  /\ pc[s] = "userPhone"
  /\ LET r == run[s]
         deviceId == r.ids[r.i]
         phone == Trim(r.form.phone)
         goOn == /\ run' = [run EXCEPT ![s].phoneAt = (deviceId :> nextId) @@ @,
                                       ![s].i = IF r.i < Len(r.ids) THEN r.i + 1 ELSE 1]
                 /\ pc' = [pc EXCEPT ![s] = IF r.i < Len(r.ids) THEN "userEmail" ELSE "write"]
                 /\ UNCHANGED <<outcome, submitting>>
     IN IF phone = <<>>
        THEN goOn /\ UNCHANGED faults
        ELSE \E ok \in BOOLEAN :
               /\ StoreAnswers(ok)
               /\ IF ok /\ UserPhoneQuery(EventId, r.sel[deviceId].date, r.sel[deviceId].slot, phone) # {}
                  THEN Leave(s, "DuplicatePerson")
                  ELSE goOn
  /\ UNCHANGED <<dashboard, slotGen, storeVars, boundVars, viewVars, selVars, written, checkLog>>

\* the second loop left after its first iteration
UserPhoneCheckFirstOnly(s) ==
  /\ pc[s] = "userPhone"
  /\ LET r == run[s]
         deviceId == r.ids[r.i]
         phone == Trim(r.form.phone)
         goOn == /\ run' = [run EXCEPT ![s].phoneAt = (deviceId :> nextId) @@ @,
                                       ![s].i = 1]
                 /\ pc' = [pc EXCEPT ![s] = "write"]
                 /\ UNCHANGED <<outcome, submitting>>
     IN IF phone = <<>>
        THEN goOn /\ UNCHANGED faults
        ELSE \E ok \in BOOLEAN :
               /\ StoreAnswers(ok)
               /\ IF ~ok
                  THEN Leave(s, "Failed")
                  ELSE IF UserPhoneQuery(EventId, r.sel[deviceId].date, r.sel[deviceId].slot, phone) # {}
                  THEN Leave(s, "DuplicatePerson")
                  ELSE goOn
  /\ UNCHANGED <<dashboard, slotGen, storeVars, boundVars, viewVars, selVars, written, checkLog>>

\* the same iteration: the phone query of getBookingByUserAtSlot
UserPhoneCheck(s) ==
  /\ pc[s] = "userPhone"
  /\ LET r == run[s]
         deviceId == r.ids[r.i]
         phone == Trim(r.form.phone)
         goOn == /\ run' = [run EXCEPT ![s].phoneAt = (deviceId :> nextId) @@ @,
                                       ![s].i = IF r.i < Len(r.ids) THEN r.i + 1 ELSE 1]
                 /\ pc' = [pc EXCEPT ![s] = IF r.i < Len(r.ids) THEN "userEmail" ELSE "write"]
                 /\ UNCHANGED <<outcome, submitting>>
     IN IF phone = <<>>
        THEN goOn /\ UNCHANGED faults
        ELSE \E ok \in BOOLEAN :
               /\ StoreAnswers(ok)
               /\ IF ~ok
                  THEN Leave(s, "Failed")
                  ELSE IF UserPhoneQuery(EventId, r.sel[deviceId].date, r.sel[deviceId].slot, phone) # {}
                  THEN Leave(s, "DuplicatePerson")
                  ELSE goOn
  /\ UNCHANGED <<dashboard, slotGen, storeVars, boundVars, viewVars, selVars, written, checkLog>>

\* the store clock of a validation read, 0 when the read was not made
ReadAt(log, deviceId) == IF deviceId \in DOMAIN log THEN log[deviceId] ELSE 0

\* the third loop with the rejected createBooking caught inside the loop:
\* it goes on with the next device
CreateBookingCaughtInLoop(s) ==
  /\ pc[s] = "write"
  /\ LET r == run[s]
         deviceId == r.ids[r.i]
         data == BookingData(nextId, deviceId, r.sel[deviceId], r.form)
     IN \E ok \in BOOLEAN :
          /\ StoreAnswers(ok)
          /\ IF ~ok
             THEN UNCHANGED <<bookings, nextId, written, checkLog>>
             ELSE /\ bookings' = bookings \cup {data}
                  /\ nextId' = nextId + 1
                  /\ written' = [written EXCEPT ![s] = Append(@, data)]
                  /\ checkLog' = (nextId :> [sub |-> r.n,
                                             doc |-> data,
                                             start |-> r.start,
                                             slotAt |-> ReadAt(r.slotAt, deviceId),
                                             emailAt |-> ReadAt(r.emailAt, deviceId),
                                             phoneAt |-> ReadAt(r.phoneAt, deviceId)]) @@ checkLog
          /\ IF r.i < Len(r.ids)
             THEN /\ run' = [run EXCEPT ![s].i = r.i + 1]
                  /\ UNCHANGED <<pc, outcome>>
             ELSE /\ outcome' = [outcome EXCEPT ![s] = "Confirmed"]
                  /\ pc' = [pc EXCEPT ![s] = "reloadEvent"]
                  /\ UNCHANGED run
          /\ UNCHANGED submitting
  /\ UNCHANGED <<dashboard, slotGen, eventDoc, sendBookingRequests, boundVars, viewVars, selVars>>

\* one iteration of the third loop: await createBooking
CreateBooking(s) ==
  /\ pc[s] = "write"
  /\ LET r == run[s]
         deviceId == r.ids[r.i]
         data == BookingData(nextId, deviceId, r.sel[deviceId], r.form)
     IN \E ok \in BOOLEAN :
          /\ StoreAnswers(ok)
          /\ IF ~ok
             THEN /\ Leave(s, "Failed")
                  /\ UNCHANGED <<bookings, nextId, written, checkLog>>
             ELSE /\ bookings' = bookings \cup {data}
                  /\ nextId' = nextId + 1
                  /\ written' = [written EXCEPT ![s] = Append(@, data)]
                  /\ checkLog' = (nextId :> [sub |-> r.n,
                                             doc |-> data,
                                             start |-> r.start,
                                             slotAt |-> ReadAt(r.slotAt, deviceId),
                                             emailAt |-> ReadAt(r.emailAt, deviceId),
                                             phoneAt |-> ReadAt(r.phoneAt, deviceId)]) @@ checkLog
                  /\ IF r.i < Len(r.ids)
                     THEN /\ run' = [run EXCEPT ![s].i = r.i + 1]
                          /\ UNCHANGED <<pc, outcome>>
                     ELSE /\ outcome' = [outcome EXCEPT ![s] = "Confirmed"]
                          /\ pc' = [pc EXCEPT ![s] = "reloadEvent"]
                          /\ UNCHANGED run
                  /\ UNCHANGED submitting
  /\ UNCHANGED <<dashboard, slotGen, eventDoc, sendBookingRequests, boundVars, viewVars, selVars>>

\* after await loadEvent(): the state resets and the finally block
FinishBooking(s) ==
  /\ selectedDeviceIds' = [selectedDeviceIds EXCEPT ![s] = <<>>]
  /\ bookingForm' = [bookingForm EXCEPT ![s] = EmptyForm]
  /\ submitting' = [submitting EXCEPT ![s] = FALSE]
  /\ pc' = [pc EXCEPT ![s] = "idle"]

\* await loadEvent() of handleBooking: first await
ReloadEvent(s) ==
  /\ pc[s] = "reloadEvent"
  /\ \E res \in {"throwEvent", "throwDevices", "ok"} :
       /\ LoadEventHead(s, res)
       /\ IF LoadEventContinues(res)
          THEN /\ pc' = [pc EXCEPT ![s] = "reloadBookings"]
               /\ UNCHANGED <<selectedDeviceIds, bookingForm, submitting>>
          ELSE FinishBooking(s)
  /\ UNCHANGED <<dashboard, slotGen, storeVars, boundVars, loading, bookedSlots, selectedDeviceBookings,
                 run, outcome, written, checkLog>>

\* await loadEvent() of handleBooking: getBookingsByEventId, then the resets
ReloadBookings(s) ==
  /\ pc[s] = "reloadBookings"
  /\ \E ok \in BOOLEAN : LoadEventTail(s, ok)
  /\ FinishBooking(s)
  /\ UNCHANGED <<dashboard, slotGen, storeVars, boundVars, event, devices, loading, selectedDeviceBookings,
                 run, outcome, written, checkLog>>

(***************************************************************************)
(* Organizer operations on the store.                                      *)
(***************************************************************************)
ToggleEventEnabled(enabled) ==
  /\ adminOps < MaxAdminOps
  /\ eventDoc # NoEvent
  /\ eventDoc.enabled # enabled
  /\ eventDoc' = [eventDoc EXCEPT !.enabled = enabled]
  /\ adminOps' = adminOps + 1
  /\ UNCHANGED <<bookings, nextId, sendBookingRequests, submits, faults, viewVars, selVars, runVars,
                 slotGen, dashboard>>

\* loadBookings(eventId) up to its await: the request is in flight
LoadBookingsCall(d, eventId) == [d EXCEPT !.requests = Append(@, eventId)]

\* handleCancelBooking after deleteBooking: loadBookings of the selected event
AfterCancel ==
  /\ dashboard.selectedEvent # Null => Len(dashboard.requests) < MaxRequests
  /\ dashboard' = IF dashboard.selectedEvent # Null
                  THEN LoadBookingsCall(dashboard, dashboard.selectedEvent)
                  ELSE dashboard

\* deleteBooking on the reference of a document that does not exist
DeleteBookingOtherDoc(bookingId) ==
  /\ adminOps < MaxAdminOps
  /\ \E b \in bookings : b.id = bookingId
  /\ bookings' = {b \in bookings : b.id # bookingId + nextId}
  /\ adminOps' = adminOps + 1
  /\ AfterCancel
  /\ UNCHANGED <<eventDoc, nextId, sendBookingRequests, submits, faults, viewVars, selVars, runVars, slotGen>>

\* handleCancelBooking of the dashboard, once confirmed: await deleteBooking
DeleteBooking(bookingId) ==
  /\ adminOps < MaxAdminOps
  /\ \E b \in bookings : b.id = bookingId
  /\ bookings' = {b \in bookings : b.id # bookingId}
  /\ adminOps' = adminOps + 1
  /\ AfterCancel
  /\ UNCHANGED <<eventDoc, nextId, sendBookingRequests, submits, faults, viewVars, selVars, runVars, slotGen>>

\* handleDeleteEvent of the dashboard, once confirmed: await deleteEvent,
\* then the selection is dropped when it is the deleted event
DeleteEvent ==
  /\ adminOps < MaxAdminOps
  /\ eventDoc # NoEvent
  /\ eventDoc' = NoEvent
  /\ adminOps' = adminOps + 1
  /\ dashboard' = IF dashboard.selectedEvent = EventId
                  THEN [dashboard EXCEPT !.selectedEvent = Null, !.bookings = {}]
                  ELSE dashboard
  /\ UNCHANGED <<bookings, nextId, sendBookingRequests, submits, faults, viewVars, selVars, runVars, slotGen>>

(***************************************************************************)
(* The admin dashboard.  loadBookings awaits getBookingsByEventId and then *)
(* calls setBookings with the answer; the calls in flight are answered in  *)
(* any order.                                                              *)
(***************************************************************************)
\* handleEventSelect, and the auto-refresh effect that runs when the id of
\* the selected event has changed: each calls loadBookings
HandleEventSelect(eventId) ==
  /\ LET calls == IF dashboard.selectedEvent # eventId THEN <<eventId, eventId>> ELSE <<eventId>>
     IN /\ Len(dashboard.requests) + Len(calls) <= MaxRequests
        /\ dashboard' = [dashboard EXCEPT !.selectedEvent = eventId, !.requests = @ \o calls]
  /\ UNCHANGED <<storeVars, boundVars, faults, viewVars, selVars, runVars, slotGen>>

\* refreshBookings (the refresh button) and the tick of the 5-second interval
RefreshBookings ==
  /\ dashboard.selectedEvent # Null
  /\ Len(dashboard.requests) < MaxRequests
  /\ dashboard' = LoadBookingsCall(dashboard, dashboard.selectedEvent)
  /\ UNCHANGED <<storeVars, boundVars, faults, viewVars, selVars, runVars, slotGen>>

\* loadBookings after its await without a look at the selected event
LoadBookingsReturn(i) ==
  /\ i \in 1..Len(dashboard.requests)
  /\ \E ok \in BOOLEAN :
       /\ StoreAnswers(ok)
       /\ dashboard' = [dashboard EXCEPT
                          !.bookings = IF ok THEN GetBookingsByEventId(dashboard.requests[i]) ELSE @,
                          !.requests = SubSeq(@, 1, i - 1) \o SubSeq(@, i + 1, Len(@))]
  /\ UNCHANGED <<storeVars, boundVars, viewVars, selVars, runVars, slotGen>>

\* updateEvent: updateDoc merges the given fields into the Event document.
\* No page of the repository calls it; it is the one function of the store
\* layer that changes eventDates and availableSlots of a stored Event.
UpdateEvent(eventData) ==
  /\ adminOps < MaxAdminOps
  /\ eventDoc # NoEvent
  /\ eventDoc' = eventData @@ eventDoc
  /\ eventDoc' # eventDoc
  /\ adminOps' = adminOps + 1
  /\ UNCHANGED <<bookings, nextId, sendBookingRequests, submits, faults, viewVars, selVars, runVars,
                 slotGen, dashboard>>

(***************************************************************************)
(* generateTimeSlots of the event creation page.  Times are the "HH:MM"    *)
(* strings of the time inputs; the loop is followed iteration by           *)
(* iteration.                                                              *)
(***************************************************************************)
DigitValue(c) ==
  CASE c = "0" -> 0 [] c = "1" -> 1 [] c = "2" -> 2 [] c = "3" -> 3 [] c = "4" -> 4
    [] c = "5" -> 5 [] c = "6" -> 6 [] c = "7" -> 7 [] c = "8" -> 8 [] c = "9" -> 9

DigitChar(n) ==
  CASE n = 0 -> "0" [] n = 1 -> "1" [] n = 2 -> "2" [] n = 3 -> "3" [] n = 4 -> "4"
    [] n = 5 -> "5" [] n = 6 -> "6" [] n = 7 -> "7" [] n = 8 -> "8" [] n = 9 -> "9"

\* Number(str) of a string of decimal digits; Number('') is 0
RECURSIVE NumberOf(_)
NumberOf(str) ==
  IF str = <<>> THEN 0
  ELSE 10 * NumberOf(SubSeq(str, 1, Len(str) - 1)) + DigitValue(str[Len(str)])

\* str.split(':') of a string with one colon
SplitAtColon(str) ==
  LET i == CHOOSE k \in 1..Len(str) : str[k] = ":"
  IN <<SubSeq(str, 1, i - 1), SubSeq(str, i + 1, Len(str))>>

\* const [hour, min] = time.split(':').map(Number); hour * 60 + min
TimeToMinutes(time) ==
  LET parts == SplitAtColon(time)
  IN NumberOf(parts[1]) * 60 + NumberOf(parts[2])

\* Number.prototype.toString of an integer
RECURSIVE NatToString(_)
NatToString(n) ==
  IF n < 10 THEN <<DigitChar(n)>>
  ELSE NatToString(n \div 10) \o <<DigitChar(n % 10)>>

IntToString(n) == IF n < 0 THEN <<"-">> \o NatToString(-n) ELSE NatToString(n)

\* str.padStart(2, '0')
RECURSIVE PadStart2(_)
PadStart2(str) == IF Len(str) >= 2 THEN str ELSE PadStart2(<<"0">> \o str)

\* the remainder operator of JavaScript: the sign is that of the dividend
Remainder(a, b) == IF a >= 0 THEN a % b ELSE -((-a) % b)

\* the label the loop pushes for minutes
SlotLabel(minutes) ==
  LET hours == minutes \div 60
      mins == Remainder(minutes, 60)
  IN PadStart2(IntToString(hours)) \o <<":">> \o PadStart2(IntToString(mins))

\* a cleared time input gives '': split(':') has one part, the minute is
\* undefined and hour * 60 + min is NaN
IsNaNTime(time) == \A k \in 1..Len(time) : time[k] # ":"

\* the condition of the for loop, with the off-by-one of an inclusive end
LoopContinuesInclusive(g) ==
  /\ ~IsNaNTime(g.startTime)
  /\ ~IsNaNTime(g.endTime)
  /\ g.minutes <= TimeToMinutes(g.endTime)

\* the condition of the for loop; a comparison with NaN is false
LoopContinues(g) ==
  /\ ~IsNaNTime(g.startTime)
  /\ ~IsNaNTime(g.endTime)
  /\ g.minutes < TimeToMinutes(g.endTime)

\* the state of generateTimeSlots when the loop is entered; minutes is not
\* read when it is NaN
CallOf(startTime, endTime, duration) ==
  [pc |-> "loop", startTime |-> startTime, endTime |-> endTime, duration |-> duration,
   minutes |-> IF IsNaNTime(startTime) THEN 0 ELSE TimeToMinutes(startTime), slots |-> <<>>]

\* one iteration of the loop
GenerateStep ==
  /\ slotGen.pc = "loop"
  /\ LoopContinues(slotGen)
  /\ Len(slotGen.slots) < MaxSlotSteps
  /\ slotGen' = [slotGen EXCEPT !.slots = Append(@, SlotLabel(slotGen.minutes)),
                                !.minutes = @ + slotGen.duration]
  /\ UNCHANGED <<dashboard, storeVars, boundVars, faults, viewVars, selVars, runVars>>

\* the loop is left: return slots
GenerateReturn ==
  /\ slotGen.pc = "loop"
  /\ ~LoopContinues(slotGen)
  /\ slotGen' = [slotGen EXCEPT !.pc = "done"]
  /\ UNCHANGED <<dashboard, storeVars, boundVars, faults, viewVars, selVars, runVars>>

(***************************************************************************)
(* The event creation page.  slotGen holds formData and, once the form has *)
(* been submitted, the call of generateTimeSlots and the Event passed to   *)
(* createEvent.  Title and description are required inputs, which the      *)
(* browser checks before onSubmit.  Dates are the "YYYY-MM-DD" strings of  *)
(* the date input.                                                         *)
(***************************************************************************)
\* the UTF-16 code unit of the characters of dates and times
CodeUnit(c) == IF c = "-" THEN 45 ELSE IF c = ":" THEN 58 ELSE 48 + DigitValue(c)

\* a < b in the order of Array.prototype.sort without a comparator
RECURSIVE StringLess(_, _)
StringLess(a, b) ==
  IF b = <<>> THEN FALSE
  ELSE IF a = <<>> THEN TRUE
  ELSE IF a[1] # b[1] THEN CodeUnit(a[1]) < CodeUnit(b[1])
  ELSE StringLess(Tail(a), Tail(b))

\* Array.prototype.sort(): stable, ascending
RECURSIVE Sort(_)
Sort(seq) ==
  IF seq = <<>> THEN <<>>
  ELSE LET sorted == Sort(SubSeq(seq, 1, Len(seq) - 1))
           last == seq[Len(seq)]
           before == SelectSeq(sorted, LAMBDA x : ~StringLess(last, x))
           after == SelectSeq(sorted, LAMBDA x : StringLess(last, x))
       IN before \o <<last>> \o after

\* useState of formData, and no Event stored
CreateForm ==
  [pc |-> "form", eventDates |-> <<>>, slotDuration |-> 30,
   startTime |-> <<"0", "9", ":", "0", "0">>, endTime |-> <<"1", "7", ":", "0", "0">>,
   deviceIds |-> <<>>, stored |-> <<>>]

OnCreateForm == slotGen.pc = "form"

\* handleSubmit has returned without an Event: the form is shown as it was
BackToForm == [f \in DOMAIN CreateForm |-> IF f = "pc" THEN "form" ELSE slotGen[f]]

\* addDate appending the date whether or not the list has it
AddDateNoIncludesCheck(dateInput) ==
  /\ OnCreateForm
  /\ dateInput # <<>>
  /\ slotGen' = [slotGen EXCEPT !.eventDates = Sort(Append(@, dateInput))]
  /\ UNCHANGED <<dashboard, storeVars, boundVars, faults, viewVars, selVars, runVars>>

\* addDate on the date typed into the date input
AddDate(dateInput) ==
  /\ OnCreateForm
  /\ dateInput # <<>>
  /\ dateInput \notin Range(slotGen.eventDates)
  /\ slotGen' = [slotGen EXCEPT !.eventDates = Sort(Append(@, dateInput))]
  /\ UNCHANGED <<dashboard, storeVars, boundVars, faults, viewVars, selVars, runVars>>

\* removeDate: the button of a listed date
RemoveDate(dateToRemove) ==
  /\ OnCreateForm
  /\ dateToRemove \in Range(slotGen.eventDates)
  /\ slotGen' = [slotGen EXCEPT !.eventDates = SelectSeq(@, LAMBDA date : date # dateToRemove)]
  /\ UNCHANGED <<dashboard, storeVars, boundVars, faults, viewVars, selVars, runVars>>

\* onChange of the two time inputs and of the duration select
SetStartTime(time) ==
  /\ OnCreateForm
  /\ slotGen.startTime # time
  /\ slotGen' = [slotGen EXCEPT !.startTime = time]
  /\ UNCHANGED <<dashboard, storeVars, boundVars, faults, viewVars, selVars, runVars>>

SetEndTime(time) ==
  /\ OnCreateForm
  /\ slotGen.endTime # time
  /\ slotGen' = [slotGen EXCEPT !.endTime = time]
  /\ UNCHANGED <<dashboard, storeVars, boundVars, faults, viewVars, selVars, runVars>>

SetSlotDuration(duration) ==
  /\ OnCreateForm
  /\ slotGen.slotDuration # duration
  /\ slotGen' = [slotGen EXCEPT !.slotDuration = duration]
  /\ UNCHANGED <<dashboard, storeVars, boundVars, faults, viewVars, selVars, runVars>>

ToggleDevice(deviceId) ==
  /\ OnCreateForm
  /\ slotGen' = [slotGen EXCEPT !.deviceIds =
                    IF deviceId \in Range(@)
                    THEN SelectSeq(@, LAMBDA id : id # deviceId)
                    ELSE Append(@, deviceId)]
  /\ UNCHANGED <<dashboard, storeVars, boundVars, faults, viewVars, selVars, runVars>>

\* handleSubmit of the creation form up to the call of generateTimeSlots
HandleSubmitCreate ==
  /\ OnCreateForm
  /\ Len(slotGen.eventDates) # 0
  /\ slotGen' = CallOf(slotGen.startTime, slotGen.endTime, slotGen.slotDuration) @@ slotGen
  /\ UNCHANGED <<dashboard, storeVars, boundVars, faults, viewVars, selVars, runVars>>

\* handleSubmit after generateTimeSlots has returned: the device check, then
\* await createEvent(eventData), which the store may reject
CreateEvent ==
  /\ slotGen.pc = "done"
  /\ "stored" \in DOMAIN slotGen
  /\ IF Len(slotGen.deviceIds) = 0
     THEN /\ slotGen' = BackToForm
          /\ UNCHANGED faults
     ELSE \E ok \in BOOLEAN :
            /\ StoreAnswers(ok)
            /\ slotGen' = IF ok
                          THEN [slotGen EXCEPT
                                  !.pc = "created",
                                  !.stored = <<[eventDates |-> slotGen.eventDates,
                                                slotDuration |-> slotGen.slotDuration,
                                                availableSlots |-> slotGen.slots,
                                                deviceIds |-> slotGen.deviceIds,
                                                enabled |-> TRUE]>>]
                          ELSE BackToForm
  /\ UNCHANGED <<dashboard, storeVars, boundVars, viewVars, selVars, runVars>>

(***************************************************************************)
(* Specifications.  Spec: two visitors at the same time; a visitor         *)
(* composes a reservation in one step and the store answers every request. *)
(* SpecSession: one visitor and the organizer; every click is a step and   *)
(* the store may reject requests.  SpecSelect: one visitor on an event     *)
(* with two dates; every click is a step.  SpecSlots: one call of          *)
(* generateTimeSlots, which runs as long as it can.  SpecHandler: one      *)
(* visitor, every click a step, and handleBooking called on any state of   *)
(* the page.  SpecSerial: two visitors whose submissions are executed one  *)
(* at a time, and the organizer cancelling Bookings.  SpecUpdate: one      *)
(* visitor, every click a step, and the Event document updated or deleted  *)
(* in the store.  SpecCreate: the organizer on the event creation page.    *)
(* SpecIndex: one visitor selecting on a store that holds the Bookings of  *)
(* earlier visitors.  SpecCompose: two visitors, the first composing a     *)
(* reservation click by click without submitting it, the second reserving. *)
(* SpecDashboard: the organizer on the dashboard of two events.            *)
(* SpecAnswered: SpecSession where the store answers every request.        *)
(***************************************************************************)
Selections == [date : Range(EventDates), slot : Range(AvailableSlots)]

Booking(s) ==
  \/ HandleBookingSubmit(s)
  \/ SlotCheck(s)
  \/ UserEmailCheck(s)
  \/ UserPhoneCheck(s)
  \/ CreateBooking(s)
  \/ ReloadEvent(s)
  \/ ReloadBookings(s)

Organizer ==
  \/ \E enabled \in BOOLEAN : ToggleEventEnabled(enabled)
  \/ \E id \in 1..(nextId - 1) : DeleteBooking(id)
  \/ DeleteEvent

Next ==
  \/ \E s \in Sessions : MountLoadEvent(s)
  \/ \E s \in Sessions : MountLoadBookings(s)
  \/ \E s \in Sessions : \E ids \in DeviceOrders(Range(DeviceIds)) :
       \E sel \in [Range(ids) -> Selections] : \E form \in FormsOf(s) :
         Reserve(s, ids, sel, form)
  \/ \E s \in Sessions : Booking(s)

Spec == Init /\ [][Next]_vars

InitSession == InitWith(EventDates, {"v1"}, 0) /\ slotGen = NoCall

NextSession ==
  \/ \E s \in Sessions : MountLoadEvent(s)
  \/ \E s \in Sessions : MountLoadBookings(s)
  \/ \E s \in Sessions : \E d \in Range(DeviceIds) : HandleDeviceSelect(s, d)
  \/ \E s \in Sessions : \E d \in Range(DeviceIds) : \E date \in Range(EventDates) :
       HandleDeviceDateSelect(s, d, date)
  \/ \E s \in Sessions : \E d \in Range(DeviceIds) : \E slot \in Range(AvailableSlots) :
       HandleDeviceSlotSelect(s, d, slot)
  \/ \E s \in Sessions : \E form \in FormsOf(s) \cup {InvalidForm} : SetBookingForm(s, form)
  \/ \E s \in Sessions : Booking(s)
  \/ Organizer

SpecSession == InitSession /\ [][NextSession]_vars

TwoDates == <<"2026-02-03", "2026-02-04">>

InitSelect == InitWith(TwoDates, {"v1"}, MaxFaults) /\ slotGen = NoCall

NextSelect ==
  \/ \E s \in Sessions : MountLoadEvent(s)
  \/ \E s \in Sessions : MountLoadBookings(s)
  \/ \E s \in Sessions : \E d \in Range(DeviceIds) : HandleDeviceSelect(s, d)
  \/ \E s \in Sessions : \E d \in Range(DeviceIds) : \E date \in Range(TwoDates) :
       HandleDeviceDateSelect(s, d, date)
  \/ \E s \in Sessions : \E d \in Range(DeviceIds) : \E slot \in Range(AvailableSlots) :
       HandleDeviceSlotSelect(s, d, slot)
  \/ \E s \in Sessions : \E form \in FormsOf(s) : SetBookingForm(s, form)
  \/ \E s \in Sessions : Booking(s)

SpecSelect == InitSelect /\ [][NextSelect]_vars

\* no other session is between the first validation read and the last write
\* of a handleBooking
OthersQuiet(s) ==
  \A t \in Sessions \ {s} : pc[t] \notin {"slotCheck", "userEmail", "userPhone", "write"}

NextSerial ==
  \/ \E s \in Sessions : MountLoadEvent(s)
  \/ \E s \in Sessions : MountLoadBookings(s)
  \/ \E s \in Sessions : \E ids \in DeviceOrders(Range(DeviceIds)) :
       \E sel \in [Range(ids) -> Selections] : \E form \in FormsOf(s) :
         OthersQuiet(s) /\ Reserve(s, ids, sel, form)
  \/ \E s \in Sessions : OthersQuiet(s) /\ HandleBookingSubmit(s)
  \/ \E s \in Sessions : SlotCheck(s)
  \/ \E s \in Sessions : UserEmailCheck(s)
  \/ \E s \in Sessions : UserPhoneCheck(s)
  \/ \E s \in Sessions : CreateBooking(s)
  \/ \E s \in Sessions : ReloadEvent(s)
  \/ \E s \in Sessions : ReloadBookings(s)
  \/ \E id \in 1..(nextId - 1) : DeleteBooking(id)

SpecSerial == Init /\ [][NextSerial]_vars

\* the fields an organizer gives updateEvent: the event moves to another
\* date, or loses its first slot
EventUpdates == {[eventDates |-> <<"2026-02-04">>], [availableSlots |-> <<"09:30">>]}

InitUpdate == InitWith(EventDates, {"v1"}, MaxFaults) /\ slotGen = NoCall

NextUpdate ==
  \/ \E s \in Sessions : MountLoadEvent(s)
  \/ \E s \in Sessions : MountLoadBookings(s)
  \/ \E s \in Sessions : \E d \in Range(DeviceIds) : HandleDeviceSelect(s, d)
  \/ \E s \in Sessions : \E d \in Range(DeviceIds) : \E date \in Range(TwoDates) :
       HandleDeviceDateSelect(s, d, date)
  \/ \E s \in Sessions : \E d \in Range(DeviceIds) : \E slot \in Range(AvailableSlots) :
       HandleDeviceSlotSelect(s, d, slot)
  \/ \E s \in Sessions : \E form \in FormsOf(s) : SetBookingForm(s, form)
  \/ \E s \in Sessions : Booking(s)
  \/ \E eventData \in EventUpdates : UpdateEvent(eventData)
  \/ DeleteEvent

SpecUpdate == InitUpdate /\ [][NextUpdate]_vars

\* what the organizer types into the date input and the time inputs, and
\* the options of the duration select
DateInputs == {<<>>,
               <<"2", "0", "2", "6", "-", "0", "2", "-", "0", "3">>,
               <<"2", "0", "2", "6", "-", "0", "2", "-", "0", "4">>,
               <<"2", "0", "2", "6", "-", "0", "1", "-", "3", "1">>}
TimeInputs == {<<>>, <<"0", "9", ":", "0", "0">>, <<"0", "9", ":", "5", "0">>,
               <<"1", "0", ":", "3", "0">>, <<"1", "7", ":", "0", "0">>}
DurationOptions == {15, 30, 45, 60}

InitCreate == InitWith(EventDates, {}, 0) /\ slotGen = CreateForm

NextCreate ==
  \/ \E dateInput \in DateInputs : AddDate(dateInput)
  \/ \E date \in DateInputs : RemoveDate(date)
  \/ \E time \in TimeInputs : SetStartTime(time)
  \/ \E time \in TimeInputs : SetEndTime(time)
  \/ \E duration \in DurationOptions : SetSlotDuration(duration)
  \/ \E deviceId \in Range(DeviceIds) : ToggleDevice(deviceId)
  \/ HandleSubmitCreate
  \/ GenerateStep
  \/ GenerateReturn
  \/ CreateEvent

SpecCreate == InitCreate /\ [][NextCreate]_vars

\* the cells of an event with two dates, and the Bookings earlier visitors
\* left in the store: one per cell of taken, numbered in the order of Cells
Cells ==
  <<[deviceId |-> "D1", date |-> TwoDates[1], slot |-> AvailableSlots[1]],
    [deviceId |-> "D1", date |-> TwoDates[1], slot |-> AvailableSlots[2]],
    [deviceId |-> "D1", date |-> TwoDates[2], slot |-> AvailableSlots[1]],
    [deviceId |-> "D1", date |-> TwoDates[2], slot |-> AvailableSlots[2]],
    [deviceId |-> "D2", date |-> TwoDates[1], slot |-> AvailableSlots[1]],
    [deviceId |-> "D2", date |-> TwoDates[1], slot |-> AvailableSlots[2]],
    [deviceId |-> "D2", date |-> TwoDates[2], slot |-> AvailableSlots[1]],
    [deviceId |-> "D2", date |-> TwoDates[2], slot |-> AvailableSlots[2]]>>

EarlierBookings(taken) ==
  {BookingData(Cardinality({j \in taken : j <= k}), Cells[k].deviceId, Cells[k], Bob) : k \in taken}

InitIndex ==
  /\ \E taken \in SUBSET (1..Len(Cells)) :
       InitOn(TwoDates, {"v1"}, MaxFaults, EarlierBookings(taken))
  /\ slotGen = NoCall

NextIndex ==
  \/ \E s \in Sessions : MountLoadEvent(s)
  \/ \E s \in Sessions : MountLoadBookings(s)
  \/ \E s \in Sessions : \E d \in Range(DeviceIds) : HandleDeviceSelect(s, d)
  \/ \E s \in Sessions : \E d \in Range(DeviceIds) : \E date \in Range(TwoDates) :
       HandleDeviceDateSelect(s, d, date)
  \/ \E s \in Sessions : \E d \in Range(DeviceIds) : \E slot \in Range(AvailableSlots) :
       HandleDeviceSlotSelect(s, d, slot)

SpecIndex == InitIndex /\ [][NextIndex]_vars

\* the visitor who composes a reservation click by click and does not
\* submit it
Clicker == "v1"

NextCompose ==
  \/ \E s \in Sessions : MountLoadEvent(s)
  \/ \E s \in Sessions : MountLoadBookings(s)
  \/ \E d \in Range(DeviceIds) : HandleDeviceSelect(Clicker, d)
  \/ \E d \in Range(DeviceIds) : \E date \in Range(EventDates) :
       HandleDeviceDateSelect(Clicker, d, date)
  \/ \E d \in Range(DeviceIds) : \E slot \in Range(AvailableSlots) :
       HandleDeviceSlotSelect(Clicker, d, slot)
  \/ \E form \in FormsOf(Clicker) : SetBookingForm(Clicker, form)
  \/ \E s \in Sessions \ {Clicker} : \E ids \in DeviceOrders(Range(DeviceIds)) :
       \E sel \in [Range(ids) -> Selections] : \E form \in FormsOf(s) :
         Reserve(s, ids, sel, form)
  \/ \E s \in Sessions \ {Clicker} : SlotCheck(s)
  \/ \E s \in Sessions \ {Clicker} : UserEmailCheck(s)
  \/ \E s \in Sessions \ {Clicker} : UserPhoneCheck(s)
  \/ \E s \in Sessions \ {Clicker} : CreateBooking(s)
  \/ \E s \in Sessions \ {Clicker} : ReloadEvent(s)
  \/ \E s \in Sessions \ {Clicker} : ReloadBookings(s)

SpecCompose == Init /\ [][NextCompose]_vars

\* the events of the dashboard's list, and a store with one Booking each
EventIds == {EventId, "E2"}

BookingsOfTwoEvents ==
  {BookingData(1, "D1", [date |-> EventDates[1], slot |-> AvailableSlots[1]], Bob),
   [BookingData(2, "D1", [date |-> EventDates[1], slot |-> AvailableSlots[1]], Carol)
      EXCEPT !.eventId = "E2"]}

InitDashboard == InitOn(EventDates, {}, 0, BookingsOfTwoEvents) /\ slotGen = NoCall

NextDashboard ==
  \/ \E eventId \in EventIds : HandleEventSelect(eventId)
  \/ RefreshBookings
  \/ \E i \in 1..MaxRequests : LoadBookingsReturn(i)
  \/ \E id \in 1..(nextId - 1) : DeleteBooking(id)

SpecDashboard == InitDashboard /\ [][NextDashboard]_vars

\* the awaits of a handleBooking execution: the store answers or rejects each
\* request, so an execution that waits at an await goes on
Awaits(s) ==
  \/ SlotCheck(s)
  \/ UserEmailCheck(s)
  \/ UserPhoneCheck(s)
  \/ CreateBooking(s)
  \/ ReloadEvent(s)
  \/ ReloadBookings(s)

SpecAnswered == InitSession /\ [][NextSession]_vars /\ \A s \in Sessions : WF_vars(Awaits(s))

InitHandler == InitWith(EventDates, {"v1"}, MaxFaults) /\ slotGen = NoCall

NextHandler ==
  \/ \E s \in Sessions : MountLoadEvent(s)
  \/ \E s \in Sessions : MountLoadBookings(s)
  \/ \E s \in Sessions : \E d \in Range(DeviceIds) : HandleDeviceSelect(s, d)
  \/ \E s \in Sessions : \E d \in Range(DeviceIds) : \E date \in Range(EventDates) :
       HandleDeviceDateSelect(s, d, date)
  \/ \E s \in Sessions : \E d \in Range(DeviceIds) : \E slot \in Range(AvailableSlots) :
       HandleDeviceSlotSelect(s, d, slot)
  \/ \E s \in Sessions : \E form \in FormsOf(s) : SetBookingForm(s, form)
  \/ \E s \in Sessions : HandleBookingCall(s)
  \/ \E s \in Sessions : SlotCheck(s)
  \/ \E s \in Sessions : UserEmailCheck(s)
  \/ \E s \in Sessions : UserPhoneCheck(s)
  \/ \E s \in Sessions : CreateBooking(s)
  \/ \E s \in Sessions : ReloadEvent(s)
  \/ \E s \in Sessions : ReloadBookings(s)

SpecHandler == InitHandler /\ [][NextHandler]_vars

\* the times typed into the time inputs, and the durations: the select of the
\* form offers 15, 30, 45 and 60, the function takes any number
StartTimes == {<<"0", "9", ":", "0", "0">>, <<"0", "9", ":", "5", "0">>, <<"1", "0", ":", "3", "0">>}
EndTimes == {<<"0", "9", ":", "0", "0">>, <<"1", "0", ":", "0", "0">>,
             <<"1", "0", ":", "3", "0">>, <<"1", "1", ":", "0", "5">>}
Durations == {-15, 0, 15, 30, 45, 60}

InitSlots ==
  /\ InitWith(EventDates, {}, MaxFaults)
  /\ \E startTime \in StartTimes : \E endTime \in EndTimes : \E duration \in Durations :
       slotGen = CallOf(startTime, endTime, duration)

NextSlots == GenerateStep \/ GenerateReturn

SpecSlots == InitSlots /\ [][NextSlots]_vars /\ WF_vars(NextSlots)

(***************************************************************************)
(* Properties.                                                             *)
(***************************************************************************)
\* the Bookings a and b are for the same (eventId, deviceId, date, slotTime)
SameCell(a, b) ==
  /\ a.eventId = b.eventId
  /\ a.deviceId = b.deviceId
  /\ a.date = b.date
  /\ a.slotTime = b.slotTime

\* the Bookings a and b are for the same date and slot of the same event
SameMoment(a, b) ==
  /\ a.eventId = b.eventId
  /\ a.date = b.date
  /\ a.slotTime = b.slotTime

SameEmail(a, b) == Trim(ToLowerCase(a.email)) = Trim(ToLowerCase(b.email))

SamePhone(a, b) == Trim(a.phone) = Trim(b.phone)

\* Booking b was in the store before the handleBooking of session s started,
\* and is for the date and slot that handleBooking proposes for its k-th device
StandsAt(b, s, k) ==
  /\ b.id < run[s].start
  /\ b.eventId = EventId
  /\ b.date = run[s].sel[run[s].ids[k]].date
  /\ b.slotTime = run[s].sel[run[s].ids[k]].slot

\* Booking b belongs to the person of the form handleBooking of session s closed over
OfSubmitter(b, s) ==
  \/ b.email = Trim(ToLowerCase(run[s].form.email))
  \/ b.phone = Trim(run[s].form.phone)

\* every validation read of the handleBooking of session s has been answered
\* with no conflict
ValidationComplete(s) ==
  /\ DOMAIN run[s].slotAt = Range(run[s].ids)
  /\ DOMAIN run[s].emailAt = Range(run[s].ids)
  /\ DOMAIN run[s].phoneAt = Range(run[s].ids)

\* C1 as stated: at every moment, whatever the interleaving of submissions,
\* the store holds no two Bookings with the same (eventId, deviceId, date,
\* slotTime).
C1_SlotUnique ==
  \A a \in bookings : \A b \in bookings : SameCell(a, b) => a = b

\* C1: two Bookings of the store have the same (eventId, deviceId, date,
\* slotTime) only if they were written by two different submissions and the
\* one that wrote the later Booking had made its slot-taken check of that
\* cell before the earlier Booking was written.
C1_SlotUniqueUnlessOverlapped ==
  \A a \in bookings : \A b \in bookings :
    (a.id < b.id /\ SameCell(a, b)) =>
      /\ checkLog[a.id].sub # checkLog[b.id].sub
      /\ checkLog[b.id].slotAt <= a.id

\* two overlapping submissions have both written a Booking for one cell
C1_Overlapped ==
  \E a \in bookings : \E b \in bookings :
    /\ a.id < b.id
    /\ SameCell(a, b)
    /\ checkLog[b.id].slotAt <= a.id

\* C2 as stated: after every successful commit no two Bookings with the same
\* (date, slotTime) carry the same normalized e-mail or the same normalized
\* phone, whether one submission wrote them or two.
C2_PersonUnique ==
  (\E s \in Sessions : outcome[s] = "Confirmed") =>
    \A a \in bookings : \A b \in bookings :
      (a # b /\ SameMoment(a, b)) => (~SameEmail(a, b) /\ ~SamePhone(a, b))

\* C2: two Bookings with the same (date, slotTime) carry the same normalized
\* e-mail, or the same normalized phone, only if two different submissions
\* wrote them and the one that wrote the later Booking had made its
\* duplicate-person query by e-mail, respectively by phone, before the
\* earlier Booking was written; Bookings of one submission never share a
\* date and slot.
C2_PersonUniqueUnlessOverlapped ==
  \A a \in bookings : \A b \in bookings :
    (a.id < b.id /\ SameMoment(a, b)) =>
      /\ checkLog[a.id].sub # checkLog[b.id].sub
      /\ SameEmail(a, b) => checkLog[b.id].emailAt <= a.id
      /\ SamePhone(a, b) => checkLog[b.id].phoneAt <= a.id

\* one person holds two devices at one date and slot, through two
\* overlapping submissions
C2_SamePersonTwice ==
  \E a \in bookings : \E b \in bookings :
    /\ a.id < b.id
    /\ SameMoment(a, b)
    /\ a.deviceId # b.deviceId
    /\ SameEmail(a, b)
    /\ checkLog[b.id].emailAt <= a.id

\* C3 as stated: a reservation submitted while the Event's enabled flag is
\* false in the store is rejected as EventDisabled before any slot-taken or
\* duplicate-person query is issued, and writes no Booking, also when the
\* Event was disabled after the session loaded it.
C3_EventDisabledRejects ==
  \A s \in Sessions :
    (run[s] # NoRun /\ ~run[s].enabled) =>
      /\ pc[s] = "idle"
      /\ outcome[s] = "EventDisabled"
      /\ run[s].slotAt = <<>> /\ run[s].emailAt = <<>> /\ run[s].phoneAt = <<>>
      /\ written[s] = <<>>

\* C4: when a Booking for one of the proposed cells is in the store during
\* the slot-taken re-check, the whole submission ends as SlotAlreadyBooked
\* and writes no Booking, whatever the availability index of the session
\* shows.
C4_SlotTakenRejects ==
  \A s \in Sessions : \A k \in 1..Len(run[s].ids) :
    (\E b \in bookings : StandsAt(b, s, k) /\ b.deviceId = run[s].ids[k]) =>
      /\ written[s] = <<>>
      /\ pc[s] \in {"slotCheck", "idle"}
      /\ pc[s] = "idle" => outcome[s] = "SlotAlreadyBooked"

\* a reservation of two devices has been rejected as SlotAlreadyBooked while
\* the availability index of the session shows the booked slot as free
C4_RejectedOnStaleIndex ==
  \E s \in Sessions : \E k \in 1..Len(run[s].ids) :
    /\ pc[s] = "idle"
    /\ outcome[s] = "SlotAlreadyBooked"
    /\ Len(run[s].ids) = 2
    /\ written[s] = <<>>
    /\ \E b \in bookings : StandsAt(b, s, k) /\ b.deviceId = run[s].ids[k]
    /\ run[s].sel[run[s].ids[k]].slot
         \notin BookedForDevice(s, run[s].sel[run[s].ids[k]].date, run[s].ids[k])

\* C5 as stated: when the store holds a Booking with the submitter's
\* normalized e-mail or phone at the date and slot of a proposed triple, on
\* any device, the whole submission is rejected as a duplicate-person
\* conflict and writes no Booking.
C5_DuplicatePersonRejects ==
  \A s \in Sessions : \A k \in 1..Len(run[s].ids) :
    (pc[s] = "idle" /\ \E b \in bookings : StandsAt(b, s, k) /\ OfSubmitter(b, s)) =>
      /\ outcome[s] = "DuplicatePerson"
      /\ written[s] = <<>>

\* C5: when the store holds a Booking with the submitter's normalized e-mail
\* or phone at the date and slot of a proposed triple, on any device, the
\* whole submission is rejected and writes no Booking; it is reported as a
\* duplicate-person conflict when the slot-taken check found every proposed
\* cell free, and as slot-already-booked otherwise.
C5_DuplicatePersonOrSlotRejects ==
  \A s \in Sessions : \A k \in 1..Len(run[s].ids) :
    (\E b \in bookings : StandsAt(b, s, k) /\ OfSubmitter(b, s)) =>
      /\ written[s] = <<>>
      /\ pc[s] \in {"slotCheck", "userEmail", "userPhone", "idle"}
      /\ pc[s] = "idle" =>
           /\ outcome[s] \in {"DuplicatePerson", "SlotAlreadyBooked"}
           /\ outcome[s] = "DuplicatePerson" <=> DOMAIN run[s].slotAt = Range(run[s].ids)

\* a reservation has been rejected as DuplicatePerson for a Booking of the
\* submitter on another device at the same date and slot
C5_RejectedForOtherDevice ==
  \E s \in Sessions : \E k \in 1..Len(run[s].ids) :
    /\ pc[s] = "idle"
    /\ outcome[s] = "DuplicatePerson"
    /\ written[s] = <<>>
    /\ \E b \in bookings :
         StandsAt(b, s, k) /\ OfSubmitter(b, s) /\ b.deviceId # run[s].ids[k]

\* the triples (device, date, slot) of the Bookings in the sequence seq
Triples(seq) ==
  [k \in 1..Len(seq) |->
     [deviceId |-> seq[k].deviceId, date |-> seq[k].date, slotTime |-> seq[k].slotTime]]

\* the step is one of the handleBooking of session s
SessionStep(s) == pc'[s] # pc[s] \/ run'[s] # run[s]

\* C6 as stated: a second selected device can be given the date and slot the
\* first one holds, so that one submission reserves both devices at the same
\* date and slotTime: every free slot of a selected device can be chosen.
C6_SameSlotSelectable ==
  \A s \in Sessions : \A d \in Range(selectedDeviceIds[s]) :
    (Interactive(s) /\ d \in DOMAIN selectedDeviceBookings[s]
                    /\ selectedDeviceBookings[s][d].date # Null) =>
      \A slot \in Range(GetAvailableSlotsForDate(s, selectedDeviceBookings[s][d].date, d)) :
        slot \notin BlockedSlots(s, d)

\* C6: no submission holds two devices at the same date and slotTime, the
\* page blocks the slot for the second device; a submission of two devices
\* at different slots, started on a store without a conflicting Booking and
\* answered by the store, passes validation and writes both Bookings.
C6_TwoDevicesAtDistinctSlots ==
  \A s \in Sessions :
    /\ \A d1 \in Range(run[s].ids) : \A d2 \in Range(run[s].ids) :
         d1 # d2 => ~(/\ run[s].sel[d1].date = run[s].sel[d2].date
                      /\ run[s].sel[d1].slot = run[s].sel[d2].slot)
    /\ (Len(run[s].ids) = 2 /\ run[s].clear /\ pc[s] = "idle" /\ outcome[s] # "Failed") =>
         /\ outcome[s] = "Confirmed"
         /\ Len(written[s]) = 2
         /\ \A k \in 1..2 : written[s][k].deviceId = run[s].ids[k]

\* a submission of two devices on one date has written both Bookings
C6_TwoDevicesConfirmed ==
  \E s \in Sessions :
    /\ outcome[s] = "Confirmed"
    /\ Len(run[s].ids) = 2
    /\ Len(written[s]) = 2
    /\ run[s].sel[run[s].ids[1]].date = run[s].sel[run[s].ids[2]].date

\* C7: a submission writes a Booking only after the slot-taken check and the
\* duplicate-person check have passed for every one of its triples; the
\* validation steps leave the store as it is.
C7_WritesOnlyAfterValidation ==
  /\ [](\A s \in Sessions : written[s] # <<>> => ValidationComplete(s))
  /\ [][\A s \in Sessions :
          (SessionStep(s) /\ <<eventDoc, bookings, nextId>>' # <<eventDoc, bookings, nextId>>) =>
            (pc[s] = "write" /\ ValidationComplete(s))]_vars

\* the first Booking of a submission of two devices has been written, after
\* every check of both devices
C7_WritingAfterValidation ==
  \E s \in Sessions :
    /\ pc[s] = "write"
    /\ Len(run[s].ids) = 2
    /\ Len(written[s]) = 1
    /\ ValidationComplete(s)

\* C8: an accepted submission of n devices has written exactly n Bookings,
\* one after another in the order the devices were selected, each with the
\* date and slot of its device, the trimmed name, the lower-cased trimmed
\* e-mail and the trimmed phone.
C8_WritesInSelectionOrder ==
  \A s \in Sessions :
    /\ Len(written[s]) <= Len(run[s].ids)
    /\ outcome[s] = "Confirmed" => Len(written[s]) = Len(run[s].ids)
    /\ \A k \in 1..Len(written[s]) :
         /\ written[s][k].eventId = EventId
         /\ written[s][k].deviceId = run[s].ids[k]
         /\ written[s][k].date = run[s].sel[run[s].ids[k]].date
         /\ written[s][k].slotTime = run[s].sel[run[s].ids[k]].slot
         /\ written[s][k].name = Trim(run[s].form.name)
         /\ written[s][k].email = Trim(ToLowerCase(run[s].form.email))
         /\ written[s][k].email = ToLowerCase(written[s][k].email)
         /\ written[s][k].phone = Trim(run[s].form.phone)
         /\ k > 1 => written[s][k - 1].id < written[s][k].id

\* an accepted submission selected D2 before D1, with an e-mail in upper
\* case and a phone with a leading blank
C8_ConfirmedInSelectionOrder ==
  \E s \in Sessions :
    /\ outcome[s] = "Confirmed"
    /\ run[s].ids = <<"D2", "D1">>
    /\ Len(written[s]) = 2
    /\ written[s][1].email # run[s].form.email
    /\ written[s][1].phone # run[s].form.phone

\* C9: when the k-th write of a submission fails, the Bookings written before
\* it stay in the store, no further write is attempted, and the submission
\* ends as failed, never as confirmed.
C9_PartialCommitStays ==
  /\ [](\A s \in Sessions :
          /\ (pc[s] = "idle" /\ outcome[s] = "Failed") => Len(written[s]) < Len(run[s].ids)
          /\ outcome[s] = "Confirmed" => Len(written[s]) = Len(run[s].ids))
  /\ [][\A s \in Sessions :
          SessionStep(s) =>
            /\ bookings \subseteq bookings'
            /\ (pc[s] = "write" /\ outcome'[s] = "Failed") =>
                 /\ bookings' = bookings
                 /\ written'[s] = written[s]
                 /\ pc'[s] = "idle"
                 /\ ~submitting'[s]]_vars

\* the second write of a submission of two devices has failed and the first
\* Booking is in the store
C9_FailedAfterFirstWrite ==
  \E s \in Sessions :
    /\ pc[s] = "idle"
    /\ outcome[s] = "Failed"
    /\ Len(run[s].ids) = 2
    /\ Len(written[s]) = 1
    /\ written[s][1] \in bookings

\* C10 as stated: once all writes of a submission have succeeded, the
\* Notification Service has been invoked with the contact data and the full
\* list of committed (device, date, slot) triples.
C10_NotificationSent ==
  \A s \in Sessions :
    (pc[s] = "idle" /\ outcome[s] = "Confirmed") =>
      \E i \in DOMAIN sendBookingRequests :
        /\ sendBookingRequests[i].email = written[s][1].email
        /\ sendBookingRequests[i].bookings = Triples(written[s])

\* the Bookings that were written and are no longer in the store
Cancelled == {checkLog[id].doc : id \in {x \in DOMAIN checkLog : \A b \in bookings : b.id # x}}

\* the step is an organizer's deleteBooking
DeleteStep == adminOps' # adminOps /\ eventDoc' = eventDoc

\* the step is the end of a loadEvent of session s that the store answered
IndexBuilt(s) ==
  /\ pc[s] \in {"mountBookings", "reloadBookings"}
  /\ pc'[s] = "idle"
  /\ faults' = faults

\* C11: deleting a Booking removes it from the store, so that its cell is
\* free unless another Booking holds it: a slot-taken check answers "booked"
\* only for a cell with a Booking in the store at that moment, and an
\* availability index built from the store lists as free every slot whose
\* cell has no Booking in the store at that moment.
C11_DeleteFreesCell ==
  /\ [][DeleteStep =>
          \E b \in bookings :
            /\ bookings' = bookings \ {b}
            /\ (\A c \in bookings' : ~SameCell(b, c)) =>
                 /\ GetBookingBySlot(b.eventId, b.date, b.slotTime, b.deviceId)' = {}
                 /\ b.slotTime \notin
                      BookedMap(eventDoc, GetBookingsByEventId(b.eventId))'[b.date][b.deviceId]]_vars
  /\ [][\A s \in Sessions :
          (pc[s] = "slotCheck" /\ outcome'[s] = "SlotAlreadyBooked") =>
            GetBookingBySlot(EventId, run[s].sel[run[s].ids[run[s].i]].date,
                             run[s].sel[run[s].ids[run[s].i]].slot, run[s].ids[run[s].i]) # {}]_vars
  /\ [][\A s \in Sessions :
          IndexBuilt(s) =>
            \A date \in Range(event[s].eventDates) : \A d \in Range(event[s].deviceIds) :
              \A slot \in Range(event[s].availableSlots) :
                GetBookingBySlot(EventId, date, slot, d) = {} =>
                  slot \in Range(GetAvailableSlotsForDate(s, date, d))']_vars

\* a Booking was deleted; a later submission for its cell has passed the
\* slot-taken check, on an index that lists the slot as free
C11_CellReusedAfterDelete ==
  \E s \in Sessions : \E b \in Cancelled :
    /\ b.id < run[s].start
    /\ b.deviceId \in DOMAIN run[s].slotAt
    /\ run[s].sel[b.deviceId].date = b.date
    /\ run[s].sel[b.deviceId].slot = b.slotTime
    /\ b.slotTime \in Range(GetAvailableSlotsForDate(s, b.date, b.deviceId))

\* C12 as stated: once the organizer's delete of the Event has completed,
\* the store holds no Booking whose eventId is the deleted event.
C12_DeleteEventCascades ==
  eventDoc = NoEvent => \A b \in bookings : b.eventId # EventId

\* C13: in the availability index of a session, for every event date and
\* device, the free slots and the taken slots are disjoint and together
\* they are the availableSlots of the event.
C13_FreeAndTakenPartition ==
  \A s \in Sessions :
    event[s] # NoEvent =>
      \A date \in Range(event[s].eventDates) : \A d \in Range(event[s].deviceIds) :
        LET free == Range(GetAvailableSlotsForDate(s, date, d))
            taken == BookedForDevice(s, date, d)
        IN /\ free \cap taken = {}
           /\ free \cup taken = Range(event[s].availableSlots)

\* the index of a session has a device with a taken and a free slot on one
\* date and only free slots on the other date
C13_PartlyTaken ==
  \E s \in Sessions : \E d \in devices[s] :
    /\ event[s] # NoEvent
    /\ Len(event[s].eventDates) = 2
    /\ BookedForDevice(s, event[s].eventDates[1], d) # {}
    /\ Range(GetAvailableSlotsForDate(s, event[s].eventDates[1], d)) # {}
    /\ BookedForDevice(s, event[s].eventDates[2], d) = {}

\* the zero-padded 24-hour HH:MM label of a minute of the day
HourMinute(m) ==
  <<DigitChar((m \div 60) \div 10), DigitChar((m \div 60) % 10), ":",
    DigitChar((m % 60) \div 10), DigitChar((m % 60) % 10)>>

\* C14: for duration > 0 and start < end, generateTimeSlots returns
\* ceil((end - start) / duration) labels; the i-th label (from 0) is the
\* HH:MM form of start + i * duration, every label is before end and the
\* labels are strictly increasing.
C14_SlotsByClosedForm ==
  (slotGen.pc = "done" /\ slotGen.duration > 0
     /\ TimeToMinutes(slotGen.startTime) < TimeToMinutes(slotGen.endTime)) =>
    LET start == TimeToMinutes(slotGen.startTime)
        end == TimeToMinutes(slotGen.endTime)
        duration == slotGen.duration
        slots == slotGen.slots
    IN /\ Len(slots) = (end - start + duration - 1) \div duration
       /\ \A i \in 1..Len(slots) :
            /\ slots[i] = HourMinute(start + (i - 1) * duration)
            /\ TimeToMinutes(slots[i]) < end
            /\ i > 1 => TimeToMinutes(slots[i - 1]) < TimeToMinutes(slots[i])

\* generateTimeSlots has returned five labels for a range that is not a
\* multiple of the duration and that crosses an hour
C14_FiveSlotsAcrossHour ==
  /\ slotGen.pc = "done"
  /\ slotGen.duration = 15
  /\ Len(slotGen.slots) = 5
  /\ slotGen.slots[1] = <<"0", "9", ":", "5", "0">>
  /\ slotGen.slots[5] = <<"1", "0", ":", "5", "0">>

\* the call of generateTimeSlots has duration <= 0 or start >= end
Degenerate ==
  /\ slotGen.pc # "none"
  /\ \/ slotGen.duration <= 0
     \/ TimeToMinutes(slotGen.startTime) >= TimeToMinutes(slotGen.endTime)

\* C15 as stated: for every input with duration <= 0 or start >= end,
\* generateTimeSlots appends no label, terminates and returns an empty
\* sequence.
C15_DegenerateReturnsEmpty ==
  /\ [](Degenerate => slotGen.slots = <<>>)
  /\ (Degenerate /\ slotGen.pc = "loop") ~> (slotGen.pc = "done" /\ slotGen.slots = <<>>)

\* no device is selected, or a selected device lacks a date or a slot
Incomplete(ids, sel) ==
  \/ ids = <<>>
  \/ \E k \in 1..Len(ids) :
       \/ ids[k] \notin DOMAIN sel
       \/ sel[ids[k]].date = Null
       \/ sel[ids[k]].slot = Null

\* the step is a call of handleBooking by session s
CallStep(s) ==
  /\ pc[s] = "idle"
  /\ \/ pc'[s] = "slotCheck"
     \/ outcome'[s] # outcome[s] /\ outcome'[s] # "none"

\* C16: handleBooking called while no device is selected, or while a
\* selected device lacks a date or a slot, ends as incomplete, with no store
\* query and no Booking written; it ends as incomplete in no other case, and
\* every store query is for a complete selection.
C16_IncompleteRejected ==
  /\ [](\A s \in Sessions : run[s] # NoRun => ~Incomplete(run[s].ids, run[s].sel))
  /\ [][\A s \in Sessions :
          CallStep(s) =>
            /\ Incomplete(selectedDeviceIds[s], selectedDeviceBookings[s])
                 <=> outcome'[s] = "Incomplete"
            /\ Incomplete(selectedDeviceIds[s], selectedDeviceBookings[s]) =>
                 /\ pc'[s] = "idle"
                 /\ run'[s] = run[s]
                 /\ written'[s] = written[s]
                 /\ <<bookings, nextId, submits, faults>>' = <<bookings, nextId, submits, faults>>]_vars

\* handleBooking has ended as incomplete for two selected devices of which
\* one has a date and a slot and the other a date only
C16_RejectedForMissingSlot ==
  \E s \in Sessions :
    /\ outcome[s] = "Incomplete"
    /\ Len(selectedDeviceIds[s]) = 2
    /\ selectedDeviceBookings[s][selectedDeviceIds[s][1]].slot # Null
    /\ selectedDeviceBookings[s][selectedDeviceIds[s][2]].date # Null
    /\ selectedDeviceBookings[s][selectedDeviceIds[s][2]].slot = Null
    /\ bookingForm[s] # EmptyForm

\* the first n devices of the submission of session s
FirstDevices(s, n) == {run[s].ids[k] : k \in 1..n}

\* C17: in one submission the slot-taken checks of all triples are made
\* before any duplicate-person check, and validation ends with the first
\* conflict: no query follows it, and a submission with an already-booked
\* slot and a same-person conflict is reported as slot-already-booked (when
\* the store answers its queries).
C17_SlotChecksFirstAndFailFast ==
  \A s \in Sessions :
    /\ (pc[s] \in {"userEmail", "userPhone"} \/ run[s].emailAt # <<>> \/ run[s].phoneAt # <<>>) =>
         DOMAIN run[s].slotAt = Range(run[s].ids)
    /\ outcome[s] \in {"SlotAlreadyBooked", "DuplicatePerson"} => pc[s] = "idle"
    /\ outcome[s] = "SlotAlreadyBooked" =>
         /\ DOMAIN run[s].slotAt = FirstDevices(s, run[s].i - 1)
         /\ run[s].emailAt = <<>>
         /\ run[s].phoneAt = <<>>
    /\ outcome[s] = "DuplicatePerson" =>
         /\ DOMAIN run[s].phoneAt = FirstDevices(s, run[s].i - 1)
         /\ DOMAIN run[s].emailAt \subseteq FirstDevices(s, run[s].i)
    /\ \A k1 \in 1..Len(run[s].ids) : \A k2 \in 1..Len(run[s].ids) :
         (/\ pc[s] = "idle"
          /\ outcome[s] # "Failed"
          /\ \E b \in bookings : StandsAt(b, s, k1) /\ b.deviceId = run[s].ids[k1]
          /\ \E b \in bookings : StandsAt(b, s, k2) /\ OfSubmitter(b, s)) =>
           outcome[s] = "SlotAlreadyBooked"

\* a submission whose first triple has a same-person conflict and whose
\* second triple has an already-booked slot has ended as slot-already-booked
C17_SlotConflictReportedFirst ==
  \E s \in Sessions :
    /\ pc[s] = "idle"
    /\ outcome[s] = "SlotAlreadyBooked"
    /\ Len(run[s].ids) = 2
    /\ \E b \in bookings : StandsAt(b, s, 2) /\ b.deviceId = run[s].ids[2]
    /\ \E b \in bookings : StandsAt(b, s, 1) /\ OfSubmitter(b, s) /\ b.deviceId # run[s].ids[1]
    /\ \A b \in bookings : ~(StandsAt(b, s, 1) /\ b.deviceId = run[s].ids[1])

\* the submissions that wrote a Booking were executed one at a time: no
\* Booking of another submission was written between the start of a
\* submission and one of its writes
Serial ==
  \A b \in DOMAIN checkLog : \A c \in DOMAIN checkLog :
    (checkLog[b].sub # checkLog[c].sub /\ c < b) => c < checkLog[b].start

\* C18: when the submissions are executed one at a time, the store never
\* holds two Bookings with the same (eventId, deviceId, date, slotTime),
\* whatever the submissions and the deletions of Bookings.
C18_SerialSlotUnique ==
  Serial => \A a \in bookings : \A b \in bookings : (a.id # b.id) => ~SameCell(a, b)

\* a Booking was cancelled and its cell was booked again by a later
\* submission, the submissions being executed one at a time
C18_CellRebookedAfterCancel ==
  /\ Serial
  /\ \E c \in Cancelled : \E b \in bookings :
       /\ SameCell(b, c)
       /\ c.id < b.id
       /\ checkLog[c.id].sub # checkLog[b.id].sub

\* two different selected devices hold the same non-null date and slot in sel
Clash(ids, sel) ==
  \E d1 \in Range(ids) \cap DOMAIN sel : \E d2 \in Range(ids) \cap DOMAIN sel :
    /\ d1 # d2
    /\ sel[d1].date # Null
    /\ sel[d1].slot # Null
    /\ sel[d1].date = sel[d2].date
    /\ sel[d1].slot = sel[d2].slot

\* the step changes the entry of device d of session s, which stays selected
EntryStep(s, d) ==
  /\ selectedDeviceIds'[s] = selectedDeviceIds[s]
  /\ d \in DOMAIN selectedDeviceBookings[s]
  /\ d \in DOMAIN selectedDeviceBookings'[s]
  /\ selectedDeviceBookings'[s][d] # selectedDeviceBookings[s][d]

\* C19: in every selection state no two selected devices hold the same
\* non-null date together with the same non-null slot; a step that gives a
\* device a date leaves it without a slot; a step that gives a device a slot
\* leaves no other selected device with that slot on the same date, and the
\* update of handleDeviceSlotSelect clears the equal slot of the other
\* devices for every device and slot it could be called with.
C19_SelectionStaysExclusive ==
  /\ [](\A s \in Sessions :
          /\ ~Clash(selectedDeviceIds[s], selectedDeviceBookings[s])
          /\ \A d \in Range(selectedDeviceIds[s]) : \A slot \in Range(AvailableSlots) :
               LET upd == SlotSelectUpdate(selectedDeviceBookings[s], selectedDeviceIds[s], d, slot)
               IN /\ upd[d].slot = slot
                  /\ \A o \in Range(selectedDeviceIds[s]) \ {d} :
                       IF upd[d].date # Null
                            /\ selectedDeviceBookings[s][o].date = upd[d].date
                            /\ selectedDeviceBookings[s][o].slot = slot
                       THEN upd[o] = [selectedDeviceBookings[s][o] EXCEPT !.slot = Null]
                       ELSE upd[o] = selectedDeviceBookings[s][o])
  /\ [][\A s \in Sessions : \A d \in Range(DeviceIds) :
          EntryStep(s, d) =>
            LET old == selectedDeviceBookings[s][d]
                new == selectedDeviceBookings'[s][d]
            IN /\ (new.date # old.date) => (new.date # Null /\ new.slot = Null)
               /\ (new.date = old.date /\ new.slot # Null) =>
                    \A o \in Range(selectedDeviceIds'[s]) \ {d} :
                      ~(/\ selectedDeviceBookings'[s][o].date = new.date
                        /\ selectedDeviceBookings'[s][o].slot = new.slot)]_vars

\* two selected devices hold one date, each with a slot of its own, and a
\* click on the slot of the other device would clear it
C19_TwoDevicesOnOneDate ==
  \E s \in Sessions :
    /\ Len(selectedDeviceIds[s]) = 2
    /\ LET d1 == selectedDeviceIds[s][1]
           d2 == selectedDeviceIds[s][2]
           sel == selectedDeviceBookings[s]
       IN /\ sel[d1].date # Null
          /\ sel[d1].date = sel[d2].date
          /\ sel[d1].slot # Null
          /\ sel[d2].slot # Null
          /\ sel[d1].slot # sel[d2].slot
          /\ SlotSelectUpdate(sel, selectedDeviceIds[s], d1, sel[d2].slot)[d2].slot = Null

\* C20 as stated: once a submission has been rejected as SlotAlreadyBooked
\* and its handleBooking has returned (no loadEvent is left to run: the
\* session is idle), the availability index of the session holds the
\* conflicting slot and the page does not offer it as free any more.
C20_RejectionRefreshesIndex ==
  \A s \in Sessions :
    (pc[s] = "idle" /\ outcome[s] = "SlotAlreadyBooked") =>
      LET deviceId == run[s].ids[run[s].i]
          sel == run[s].sel[deviceId]
      IN /\ sel.slot \in BookedForDevice(s, sel.date, deviceId)
         /\ sel.slot \notin Range(GetAvailableSlotsForDate(s, sel.date, deviceId))

\* C21: when a submission failed after writing some of its Bookings and the
\* same selection and form are submitted again from the session, then, as
\* long as the first Booking it wrote stands in the store, the retry stops
\* in the slot-taken check of its first device: it writes no Booking, and
\* it ends as SlotAlreadyBooked unless the store rejects the read itself.
C21_RetryAfterPartialFailureRejected ==
  \A s \in Sessions :
    (run[s].retryOf # <<>> /\ run[s].retryOf[1] \in bookings) =>
      /\ written[s] = <<>>
      /\ run[s].i = 1
      /\ run[s].retryOf[1].deviceId = run[s].ids[1]
      /\ pc[s] \in {"slotCheck", "idle"}
      /\ pc[s] = "idle" => outcome[s] \in {"SlotAlreadyBooked", "Failed"}
      /\ (pc[s] = "idle" /\ outcome[s] = "Failed") => faults > 1

\* the retry of a submission of two devices, of which only the first was
\* written, has been rejected and the second device has no Booking
C21_RetryRejectedSecondDeviceUnbooked ==
  \E s \in Sessions :
    /\ Len(run[s].ids) = 2
    /\ Len(run[s].retryOf) = 1
    /\ run[s].retryOf[1] \in bookings
    /\ pc[s] = "idle"
    /\ outcome[s] = "SlotAlreadyBooked"
    /\ \A b \in bookings : b.deviceId # run[s].ids[2]

\* the toasts of the validation loops of handleBooking
ValidationRejections == {"MissingSelection", "SlotAlreadyBooked", "DuplicatePerson"}

\* C22: a submission that validation rejected, or whose validation was cut
\* short by a failed store query, has written no Booking and has returned;
\* a store query that fails during validation ends the submission as
\* failed at that step, with the store left as it is.
C22_ValidationFailureWritesNothing ==
  /\ [](\A s \in Sessions :
          (\/ outcome[s] \in ValidationRejections
           \/ (outcome[s] = "Failed" /\ ~ValidationComplete(s))) =>
            /\ written[s] = <<>>
            /\ pc[s] = "idle"
            /\ \A id \in DOMAIN checkLog : checkLog[id].sub # run[s].n)
  /\ [][\A s \in Sessions :
          (/\ pc[s] \in {"slotCheck", "userEmail", "userPhone"}
           /\ SessionStep(s)
           /\ faults' # faults) =>
            /\ pc'[s] = "idle"
            /\ outcome'[s] = "Failed"
            /\ written'[s] = <<>>
            /\ bookings' = bookings
            /\ nextId' = nextId]_vars

\* a submission of two devices has been reported as failed because a
\* duplicate-person query failed after both slot checks had passed, and the
\* store holds no Booking
C22_FailedInPersonQuery ==
  \E s \in Sessions :
    /\ pc[s] = "idle"
    /\ outcome[s] = "Failed"
    /\ Len(run[s].ids) = 2
    /\ DOMAIN run[s].slotAt = Range(run[s].ids)
    /\ DOMAIN run[s].phoneAt # Range(run[s].ids)
    /\ written[s] = <<>>
    /\ bookings = {}

\* the step writes Booking b to the store
WriteStep(b) == b \in bookings' /\ b \notin bookings

\* C23 as stated: every Booking a submission writes has, at the moment it
\* is written, a date of the eventDates and a slotTime of the
\* availableSlots of its parent event in the store, whatever the selection
\* actions, reloads and changes of the event before it.
C23_WrittenWithinEvent ==
  [][\A s \in Sessions : \A k \in 1..Len(written'[s]) :
       WriteStep(written'[s][k]) =>
         /\ eventDoc # NoEvent
         /\ written'[s][k].eventId = eventDoc.id
         /\ written'[s][k].date \in Range(eventDoc.eventDates)
         /\ written'[s][k].slotTime \in Range(eventDoc.availableSlots)]_vars

\* the strings of seq are strictly increasing
StrictlyIncreasing(seq) == \A i \in 1..(Len(seq) - 1) : StringLess(seq[i], seq[i + 1])

\* no string occurs twice in seq
NoDuplicates(seq) == \A i \in 1..Len(seq) : \A j \in 1..Len(seq) : i # j => seq[i] # seq[j]

\* C24: the Event the creation flow stores has strictly increasing
\* availableSlots without duplicates and eventDates without duplicates,
\* and so has the list of dates of the form after every addDate and
\* removeDate.
C24_StoredEventWellFormed ==
  /\ NoDuplicates(slotGen.eventDates)
  /\ \A k \in 1..Len(slotGen.stored) :
       /\ StrictlyIncreasing(slotGen.stored[k].availableSlots)
       /\ NoDuplicates(slotGen.stored[k].availableSlots)
       /\ NoDuplicates(slotGen.stored[k].eventDates)
       /\ slotGen.stored[k].eventDates # <<>>

\* an Event has been stored with several slots and with two dates, the
\* earlier of which was added after the later one had been added and removed
C24_EventStoredWithDatesAndSlots ==
  /\ slotGen.pc = "created"
  /\ Len(slotGen.stored[1].availableSlots) >= 3
  /\ Len(slotGen.stored[1].eventDates) = 2
  /\ slotGen.stored[1].eventDates[1] = <<"2", "0", "2", "6", "-", "0", "1", "-", "3", "1">>

\* the slots of the event that the index of session s does not list as
\* booked for the device on the date
FreeOn(s, date, deviceId) ==
  {slot \in Range(event[s].availableSlots) :
     ~(/\ date \in DOMAIN bookedSlots[s]
       /\ deviceId \in DOMAIN bookedSlots[s][date]
       /\ slot \in bookedSlots[s][date][deviceId])}

\* the slots chosen for the other selected devices of session s on the date
ChosenByOthers(s, date, deviceId) ==
  {selectedDeviceBookings[s][o].slot :
     o \in {x \in Range(selectedDeviceIds[s]) \ {deviceId} :
              selectedDeviceBookings[s][x].date = date}}

\* C25: for a selected device with a date, a click on a slot changes the
\* selection exactly when the slot is free for the device on that date and
\* is not chosen for another selected device on the same date; the slot
\* then becomes the slot of the device.  A click on any other slot is no
\* step: the selection stays as it is.
C25_SelectableSlots ==
  /\ [](\A s \in Sessions : \A d \in Range(selectedDeviceIds[s]) :
          (Interactive(s) /\ selectedDeviceBookings[s][d].date # Null) =>
            \A slot \in Range(AvailableSlots) :
              (ENABLED HandleDeviceSlotSelect(s, d, slot)) <=>
                (slot \in FreeOn(s, selectedDeviceBookings[s][d].date, d)
                            \ ChosenByOthers(s, selectedDeviceBookings[s][d].date, d)))
  /\ [][\A s \in Sessions : \A d \in Range(DeviceIds) :
          (EntryStep(s, d) /\ selectedDeviceBookings'[s][d].slot # Null) =>
            LET old == selectedDeviceBookings[s][d]
                new == selectedDeviceBookings'[s][d]
            IN /\ new.date = old.date
               /\ new.slot \in FreeOn(s, old.date, d) \ ChosenByOthers(s, old.date, d)
               /\ \A o \in Range(selectedDeviceIds[s]) \ {d} :
                    selectedDeviceBookings'[s][o] = selectedDeviceBookings[s][o]]_vars

\* two selected devices hold the same slot on different dates
C25_SameSlotOnOtherDate ==
  \E s \in Sessions :
    /\ Len(selectedDeviceIds[s]) = 2
    /\ LET sel == selectedDeviceBookings[s]
           d1 == selectedDeviceIds[s][1]
           d2 == selectedDeviceIds[s][2]
       IN /\ sel[d1].slot # Null
          /\ sel[d1].slot = sel[d2].slot
          /\ sel[d1].date # Null
          /\ sel[d2].date # Null
          /\ sel[d1].date # sel[d2].date

\* the lists of devices getAvailableDatesForDevices can be given
DeviceLists == {<<>>} \cup DeviceOrders(Range(DeviceIds))

\* the page of session s holds the event
EventLoaded(s) == event[s] # NoEvent

\* C26 as stated: for every set of devices of the event, the empty set
\* included, getAvailableDatesForDevices returns the event dates on which
\* every device of the set has at least one free slot.
C26_FreeDatesForAllDevices ==
  \A s \in Sessions : EventLoaded(s) =>
    \A deviceIds \in DeviceLists :
      Range(GetAvailableDatesForDevices(s, deviceIds)) =
        {date \in Range(event[s].eventDates) :
           \A d \in Range(deviceIds) : FreeOn(s, date, d) # {}}

\* the index of session s has been loaded from the store
IndexLoaded(s) == EventLoaded(s) /\ pc[s] = "idle" /\ ~loading[s]

\* C27: getAvailableDatesForDevice returns the event dates on which the
\* device has a free slot, in the order of eventDates; for a device whose
\* every slot on every date is booked it returns no date, and the button of
\* the device can be clicked exactly when it returns a date.
C27_FreeDatesOfDevice ==
  \A s \in Sessions : \A d \in Range(DeviceIds) :
    IndexLoaded(s) =>
      LET free(date) == FreeOn(s, date, d) # {}
          dates == GetAvailableDatesForDevice(s, d)
      IN /\ dates = SelectSeq(event[s].eventDates, free)
         /\ (\A date \in Range(event[s].eventDates) :
               Range(event[s].availableSlots) \subseteq BookedForDevice(s, date, d))
              => dates = <<>>
         /\ (ENABLED HandleDeviceSelect(s, d)) <=> (PageShown(s) /\ d \in devices[s] /\ dates # <<>>)

\* a device is booked on every slot of every date and has no free date,
\* while the other device has the second date only
C27_DeviceFullyBooked ==
  \E s \in Sessions :
    /\ IndexLoaded(s)
    /\ \A date \in Range(TwoDates) :
         BookedForDevice(s, date, "D1") = Range(AvailableSlots)
    /\ GetAvailableDatesForDevice(s, "D1") = <<>>
    /\ GetAvailableDatesForDevice(s, "D2") = <<TwoDates[2]>>

\* the step changes the selection of session s
SelectionStep(s) ==
  \/ selectedDeviceIds'[s] # selectedDeviceIds[s]
  \/ selectedDeviceBookings'[s] # selectedDeviceBookings[s]

\* C28: a step that changes the selection of a session leaves the Bookings,
\* the Event and the availability index of every other session as they
\* are; the store gets a Booking only in the write loop of a submission;
\* and the slots the index of a session lists as booked are cells of
\* Bookings of the store, whatever the other sessions have selected.
C28_ComposingLeavesStore ==
  /\ [][\A s \in Sessions :
          SelectionStep(s) =>
            /\ bookings' = bookings
            /\ nextId' = nextId
            /\ eventDoc' = eventDoc
            /\ sendBookingRequests' = sendBookingRequests
            /\ \A t \in Sessions \ {s} : bookedSlots'[t] = bookedSlots[t]]_vars
  /\ [][bookings' # bookings =>
          \E s \in Sessions : pc[s] = "write" /\ bookings' = bookings \cup {written'[s][Len(written'[s])]}]_vars
  /\ [](\A t \in Sessions : \A date \in DOMAIN bookedSlots[t] : \A d \in DOMAIN bookedSlots[t][date] :
          \A slot \in bookedSlots[t][date][d] :
            \E b \in bookings : b.deviceId = d /\ b.date = date /\ b.slotTime = slot)

\* the first visitor holds a complete selection that is not submitted, and
\* the second visitor has booked the cell of that selection
C28_SelectedCellBookedByOther ==
  /\ pc[Clicker] = "idle"
  /\ bookingForm[Clicker] = Alice
  /\ AllDevicesHaveSelection(selectedDeviceIds[Clicker], selectedDeviceBookings[Clicker])
  /\ \E t \in Sessions \ {Clicker} : \E b \in bookings :
       /\ outcome[t] = "Confirmed"
       /\ b \in Range(written[t])
       /\ b.deviceId = selectedDeviceIds[Clicker][1]
       /\ b.date = selectedDeviceBookings[Clicker][b.deviceId].date
       /\ b.slotTime = selectedDeviceBookings[Clicker][b.deviceId].slot

\* C29 as stated: once no booking-list request for the selected event is
\* in flight, the list the dashboard shows holds only Bookings of the
\* selected event, whatever requests for other events are still in flight
\* or were answered late.
C29_ListOfSelectedEvent ==
  (/\ dashboard.selectedEvent # Null
   /\ \A i \in 1..Len(dashboard.requests) : dashboard.requests[i] # dashboard.selectedEvent) =>
    \A b \in dashboard.bookings : b.eventId = dashboard.selectedEvent

\* the execution of handleBooking of session s is between setSubmitting(true)
\* and its return
Executing(s) ==
  pc[s] \in {"slotCheck", "userEmail", "userPhone", "write", "reloadEvent", "reloadBookings"}

\* the toasts of the form validation
FormErrors == {"Incomplete", "MissingContact", "NotConfirmed", "InvalidEmail", "InvalidPhone"}

\* a call of handleBooking of session s returns in this step: an execution
\* ends, or the form validation rejects the call
ReturnStep(s) ==
  \/ Executing(s) /\ ~Executing(s)'
  \/ ~Executing(s) /\ outcome'[s] # outcome[s] /\ outcome'[s] \in FormErrors

\* C30: submitting is true exactly while an execution of handleBooking is
\* between the start of the store validation and its return; every return,
\* whether a form-validation rejection, a slot-taken or duplicate-person
\* rejection, a success or a store error, leaves submitting false; and every
\* execution that has set submitting returns.
C30_SubmittingFollowsExecution ==
  /\ [](\A s \in Sessions : submitting[s] <=> Executing(s))
  /\ [][\A s \in Sessions : ReturnStep(s) => ~submitting'[s]]_vars
  /\ \A s \in Sessions : submitting[s] ~> (~submitting[s] /\ pc[s] = "idle")

\* an execution has ended with a store error in its first slot query and
\* the form can be submitted again
C30_ReturnedAfterStoreError ==
  \E s \in Sessions :
    /\ ~submitting[s]
    /\ pc[s] = "idle"
    /\ outcome[s] = "Failed"
    /\ run[s].i = 1
    /\ written[s] = <<>>
    /\ ENABLED HandleBookingSubmit(s)

=============================================================================
